---- MODULE Spec2Model ----
(***************************************************************************)
(* Gmail-Image-Reader: the two-tier extraction of delivery notes           *)
(* (src/src/data_extractor.py, src/src/openai_extractor.py) and the        *)
(* orchestrating caller (src/main.py).                                     *)
(*                                                                         *)
(* A Python dict is a record with a field "keys" (the keys present) and    *)
(* one field per key the program uses; a key that is not in "keys" holds   *)
(* the blank value of its type.  A string the program only copies is a     *)
(* TLA+ string; the sender string, which the program parses, is a          *)
(* sequence of tokens.                                                     *)
(***************************************************************************)
EXTENDS Integers, Sequences, FiniteSets, TLC

VARIABLES
    use_openai,       \* DataExtractor.use_openai of the extractor under test
    call,             \* the last extract_from_file call: its inputs and outcome
    m_local,          \* main: args.local
    m_use_openai,     \* main: extractor.use_openai of the configured extractor
    m_docs,           \* main: the documents of the run, in processing order
    m_i,              \* main: index of the document being processed
    m_pc,             \* main: position in main()
    extracted_data,   \* main: extracted_data
    processed_files,  \* main: processed_files
    attempts,         \* main: per document, the extraction attempts made
    reported,         \* main: per document, the messages printed about it
    sink,             \* main: what save_to_csv was called with
    o_data,           \* OutputGenerator: the data_list of both saves
    o_client,         \* OutputGenerator: google_sheets_client is set
    o_csv,            \* OutputGenerator: what save_to_csv wrote
    o_sheet,          \* OutputGenerator: what save_to_google_sheet sent
    p_text,           \* extract_products: lines, the text split at '\n'
    p_pc,             \* extract_products: position in the function
    p_i,              \* extract_products: index of the line being scanned
    p_started,        \* extract_products: product_section_started
    p_ended,          \* extract_products: product_section_ended
    p_lines,          \* extract_products: product_lines
    p_products,       \* extract_products: products
    fld,              \* field extractors: the text and what each returned
    pdf,              \* OpenAIExtractor.extract_from_pdf: one call
    srch,             \* EmailProcessor.search_emails: one call
    dl                \* AttachmentHandler: the downloads of one run

vars == <<use_openai, call, m_local, m_use_openai, m_docs, m_i, m_pc,
          extracted_data, processed_files, attempts, reported, sink,
          o_data, o_client, o_csv, o_sheet,
          p_text, p_pc, p_i, p_started, p_ended, p_lines, p_products,
          fld, pdf, srch, dl>>

extractorVars == <<use_openai, call>>

mainVars == <<m_local, m_use_openai, m_docs, m_i, m_pc, extracted_data,
              processed_files, attempts, reported, sink>>

outputVars == <<o_data, o_client, o_csv, o_sheet>>

productVars ==
    <<p_text, p_pc, p_i, p_started, p_ended, p_lines, p_products>>

\* the variables of the units exercised on their own
serviceVars == <<fld, pdf, srch, dl>>

unitVars == <<outputVars, productVars, serviceVars>>

\* a save that has not been called
NotRun == [kind |-> "notrun", header |-> <<>>, rows |-> <<>>]

IdleOutput ==
    /\ o_data = <<>>
    /\ o_client = FALSE
    /\ o_csv = NotRun
    /\ o_sheet = NotRun

IdleProducts ==
    /\ p_text = <<>>
    /\ p_pc = "idle"
    /\ p_i = 0
    /\ p_started = FALSE
    /\ p_ended = FALSE
    /\ p_lines = <<>>
    /\ p_products = <<>>

IdleCall == [pc |-> "idle"]

IdleServices ==
    /\ fld = IdleCall
    /\ pdf = IdleCall
    /\ srch = IdleCall
    /\ dl = IdleCall

IdleUnits == IdleOutput /\ IdleProducts /\ IdleServices

-----------------------------------------------------------------------------
(* Dicts *)

EmptyDict ==
    [keys |-> {}, sender |-> <<>>, shipping_address |-> "", date |-> "",
     products |-> <<>>, total_price |-> "", buyer |-> ""]

Has(d, k) == k \in d.keys

SetKey(d, k, v) == [d EXCEPT !.keys = @ \cup {k}, ![k] = v]

\* Python truthiness of a dict: the empty dict is falsy.
DictTruthy(d) == d.keys # {}

-----------------------------------------------------------------------------
(* Outcomes of a call: a returned dict, a returned None, or an exception *)

None == [kind |-> "none", rec |-> EmptyDict]

Raise == [kind |-> "raise", rec |-> EmptyDict]

Ret(d) == [kind |-> "record", rec |-> d]

\* "if data:" as main.py and extract_from_file test a returned value
Truthy(o) == o.kind = "record" /\ DictTruthy(o.rec)

-----------------------------------------------------------------------------
(* Values of the bounded universe *)

\* tokens of a sender string; "<" and ">" are the angle brackets
SenderAcme == <<"Acme", "<", "a@acme.com", ">">>

SenderLocal == <<"Local File">>

SenderModel == <<"Model Sender">>

Widget == [description |-> "Widget A", quantity |-> "3", price |-> "10.00"]

\* The records the model can answer with: every key absent, falsy/sentinel,
\* or set.
ModelRecords ==
    { [keys |-> ks,
       sender |-> IF "sender" \in ks THEN s ELSE <<>>,
       shipping_address |-> IF "shipping_address" \in ks THEN a ELSE "",
       date |-> IF "date" \in ks THEN d ELSE "",
       products |-> IF "products" \in ks THEN p ELSE <<>>,
       total_price |-> IF "total_price" \in ks THEN t ELSE "",
       buyer |-> ""] :
        ks \in SUBSET {"sender", "shipping_address", "date", "products",
                       "total_price"},
        s \in {<<>>, SenderModel},
        a \in {"Unknown", "1 Model Road"},
        d \in {"", "2022-07-15"},
        p \in {<<>>, <<Widget>>},
        t \in {"0.00", "30.00"} }

\* The records a second, JSON-mode answer can hold (a few of ModelRecords)
FallbackRecords ==
    { r \in ModelRecords :
        /\ r.sender = <<>> /\ r.products = <<>>
        /\ r.date \in {"", "2022-07-15"}
        /\ r.shipping_address \in {"", "1 Model Road"}
        /\ r.total_price \in {"", "30.00"}
        /\ "sender" \notin r.keys }

\* What the outside world does during one extract_from_file call.
\*   exists  : os.path.exists(image_path)           openai_extractor.py:32
\*   read    : open()/read() of the image            openai_extractor.py:37-38
\*   convert : convert_from_path of the PDF          openai_extractor.py:114-118
\*   api1    : the vision call and its content       openai_extractor.py:42-84
\*   api2    : the second, JSON-mode call            openai_extractor.py:159-179
\*   fault   : an exception raised in extract_from_file outside its try
\*             block, which reaches the caller       data_extractor.py:76-97
BaseEnv ==
    [exists |-> TRUE, read |-> "ok", convert |-> "ok",
     api1 |-> "raise", rec1 |-> EmptyDict,
     api2 |-> "raise", rec2 |-> EmptyDict, fault |-> FALSE]

QuietEnvs ==
    {BaseEnv}
    \cup {[BaseEnv EXCEPT !.exists = FALSE]}
    \cup {[BaseEnv EXCEPT !.read = "raise"]}
    \cup {[BaseEnv EXCEPT !.convert = c] : c \in {"raise", "noimages"}}
    \cup {[BaseEnv EXCEPT !.api1 = "json", !.rec1 = r] : r \in ModelRecords}
    \cup {[BaseEnv EXCEPT !.api1 = a, !.api2 = b] :
             a \in {"nojson", "badjson"}, b \in {"raise", "badjson"}}
    \cup {[BaseEnv EXCEPT !.api1 = a, !.api2 = "json", !.rec2 = r] :
             a \in {"nojson", "badjson"}, r \in FallbackRecords}

Envs == {[e EXCEPT !.fault = b] : e \in QuietEnvs, b \in BOOLEAN}

-----------------------------------------------------------------------------
(* Document text, as the field heuristics see it: per field, the value its
   patterns capture (<<v>>) or no match (<<>>) *)

BlankText ==
    [blank |-> TRUE, ship |-> <<>>, date |-> <<>>, products |-> <<>>,
     total |-> <<>>]

NoteText ==
    [blank |-> FALSE, ship |-> <<"3787 Pineview Drive">>,
     date |-> <<"15/07/2022">>, products |-> <<Widget>>,
     total |-> <<"30.00">>]

ScanText ==
    [blank |-> FALSE, ship |-> <<"9 Scan Lane">>, date |-> <<>>,
     products |-> <<>>, total |-> <<"1234.56">>]

PlainText ==
    [blank |-> FALSE, ship |-> <<>>, date |-> <<>>, products |-> <<>>,
     total |-> <<>>]

NoMeta == [present |-> FALSE, sender |-> <<>>, date |-> ""]

GmailMeta == [present |-> TRUE, sender |-> SenderAcme, date |-> "2023-09-01"]

\* main.py:60-64
LocalMeta == [present |-> TRUE, sender |-> SenderLocal, date |-> "Unknown"]

Metas == {NoMeta, GmailMeta, LocalMeta}

\* a MIME type is <<type, subtype>>
PdfMime == <<"application", "pdf">>

PngMime == <<"image", "png">>

JpegMime == <<"image", "jpeg">>

PlainMime == <<"text", "plain">>

\* mime_type == 'application/pdf'
IsPdf(f) == f.mime = PdfMime

\* mime_type.startswith('image/')
\* a test that takes every type other than application/* for an image
IsImageOrOther(f) == f.mime[1] # "application"

IsImage(f) == f.mime[1] = "image"

\* file_info: MIME type, email_metadata, and what is in the file: the
\* embedded text layer, what OCR reads, and whether reading it fails.
ImageFiles ==
    { [mime |-> PngMime, meta |-> m, embedded |-> BlankText, ocr |-> t,
       acq |-> a] :
        m \in Metas, t \in {NoteText, PlainText}, a \in {"ok", "fail"} }
    \cup
    { [mime |-> JpegMime, meta |-> m, embedded |-> BlankText,
       ocr |-> NoteText, acq |-> "ok"] : m \in Metas }

PdfFiles ==
    { [mime |-> PdfMime, meta |-> m, embedded |-> e,
       ocr |-> ScanText, acq |-> a] :
        m \in Metas, e \in {BlankText, NoteText},
        a \in {"ok", "fail_direct"} }
    \cup
    { [mime |-> PdfMime, meta |-> m, embedded |-> BlankText,
       ocr |-> ScanText, acq |-> "fail_ocr"] : m \in Metas }

OtherFiles ==
    { [mime |-> PlainMime, meta |-> m, embedded |-> BlankText,
       ocr |-> BlankText, acq |-> "ok"] : m \in Metas }

Files == ImageFiles \cup PdfFiles \cup OtherFiles

-----------------------------------------------------------------------------
(* OpenAIExtractor *)

SentinelRecord ==
    [keys |-> {"shipping_address", "date", "sender", "products",
               "total_price"},
     sender |-> <<"Unknown">>, shipping_address |-> "Unknown",
     date |-> "Unknown", products |-> <<>>, total_price |-> "0.00",
     buyer |-> ""]

\* _fallback_parsing: a second call; its JSON, or the sentinel record when
\* the call raises or its content is no JSON.
FallbackParsing(env) ==
    IF env.api2 = "json" THEN Ret(env.rec2) ELSE Ret(SentinelRecord)

\* OpenAIExtractor.extract_from_image
OpenAIExtractFromImage(exists, env) ==
    IF ~exists THEN None
    ELSE IF env.read = "raise" THEN Raise
    ELSE IF env.api1 = "raise" THEN None
    ELSE IF env.api1 = "json" THEN Ret(env.rec1)
    ELSE FallbackParsing(env)

\* OpenAIExtractor.extract_from_pdf: the first page is rasterized to a
\* temporary file, which exists when extract_from_image is called on it; any
\* exception is caught and None returned.
OpenAIExtractFromPdf(env) ==
    IF env.convert = "raise" THEN None
    ELSE IF env.convert = "noimages" THEN None
    ELSE LET r == OpenAIExtractFromImage(TRUE, env)
         IN  IF r.kind = "raise" THEN None ELSE r

-----------------------------------------------------------------------------
(* DataExtractor *)

\* DataExtractor.__init__: the mode asked for, unless the OpenAI client
\* cannot be constructed.
NewDataExtractor(want_openai, client_ok) == want_openai /\ client_ok

\* index of the first ">" after position i of s, or 0
RECURSIVE FirstClose(_, _)
FirstClose(s, i) ==
    IF i > Len(s) THEN 0
    ELSE IF s[i] = ">" THEN i
    ELSE FirstClose(s, i + 1)

\* re.search(r'<([^>]+)>', s) from position i on: the leftmost "<" that is
\* followed by at least one token and then ">"; <<>> when there is none.
RECURSIVE AngleGroup(_, _)
AngleGroup(s, i) ==
    IF i > Len(s) THEN <<>>
    ELSE IF s[i] = "<" /\ FirstClose(s, i + 1) > i + 1
         THEN SubSeq(s, i + 1, FirstClose(s, i + 1) - 1)
         ELSE AngleGroup(s, i + 1)

\* extract_email_sender
ExtractEmailSender(sender_string) ==
    IF AngleGroup(sender_string, 1) # <<>>
    THEN AngleGroup(sender_string, 1)
    ELSE sender_string

\* extract_from_image (OCR): the text read, "" on any error
ExtractFromImage(f) == IF f.acq = "ok" THEN f.ocr ELSE BlankText

\* extract_from_pdf (text): the embedded text; OCR only when that is blank;
\* on an error, the text gathered so far.
ExtractFromPdf(f) ==
    IF f.acq = "fail_direct" THEN BlankText
    ELSE IF ~f.embedded.blank THEN f.embedded
    ELSE IF f.acq = "fail_ocr" THEN f.embedded
    ELSE f.ocr

ExtractShippingAddress(text) ==
    IF text.ship = <<>> THEN "Unknown" ELSE text.ship[1]

ExtractDate(text) == IF text.date = <<>> THEN "Unknown" ELSE text.date[1]

ExtractProducts(text) == text.products

ExtractTotalPrice(text) ==
    IF text.total = <<>> THEN "0.00" ELSE text.total[1]

\* process_text
ProcessText(text) ==
    [keys |-> {"shipping_address", "date", "products", "total_price"},
     sender |-> <<>>,
     shipping_address |-> ExtractShippingAddress(text),
     date |-> ExtractDate(text),
     products |-> ExtractProducts(text),
     total_price |-> ExtractTotalPrice(text),
     buyer |-> ""]

\* a validator that forgets total_price
RequiredFieldsNoTotal == {"shipping_address", "date", "products"}

RequiredFields == {"shipping_address", "date", "products", "total_price"}

\* a validator that also rejects a record whose products list is empty or
\* whose total is the sentinel
ValidOpenAIDataStrict(data) ==
    /\ \A field \in RequiredFields : Has(data, field)
    /\ data.products # <<>>
    /\ data.total_price # "0.00"

\* _validate_openai_data: its return value
ValidOpenAIData(data) == \A field \in RequiredFields : Has(data, field)

\* _validate_openai_data: the dict it leaves behind when it returns True
WithBuyer(data) ==
    IF Has(data, "shipping_address") /\ ~Has(data, "buyer")
    THEN SetKey(data, "buyer", data.shipping_address)
    ELSE data

\* extract_from_file, "Add email metadata if available" (model tier)
NeedsSender(data) == ~Has(data, "sender") \/ data.sender = <<>>

NeedsDate(data) == ~Has(data, "date") \/ data.date = ""

\* a backfill that overwrites whatever the strategy supplied (dict.update)
BackfillOverwrites(data, meta) ==
    SetKey(SetKey(data, "sender", ExtractEmailSender(meta.sender)),
           "date", meta.date)

Backfill(data, meta) ==
    LET d1 == IF NeedsSender(data)
              THEN SetKey(data, "sender", ExtractEmailSender(meta.sender))
              ELSE data
    IN  IF NeedsDate(d1) THEN SetKey(d1, "date", meta.date) ELSE d1

\* the strategy extract_from_file picks for a supported MIME type
ModelStrategy(f, env) ==
    IF IsPdf(f) THEN OpenAIExtractFromPdf(env)
    ELSE OpenAIExtractFromImage(env.exists, env)

\* extract_from_file, the block under "if self.use_openai:".  returned: the
\* call returns out from here; otherwise openai_failed is set.  trace: the
\* collaborators invoked.
ModelTier(f, env) ==
    IF ~(IsPdf(f) \/ IsImage(f))
    THEN [returned |-> FALSE, out |-> None, trace |-> <<>>]
    ELSE
      LET m == ModelStrategy(f, env)
          data == IF f.meta.present /\ Truthy(m)
                  THEN Backfill(m.rec, f.meta) ELSE m.rec
      IN  IF m.kind = "raise"
          THEN [returned |-> FALSE, out |-> None, trace |-> <<"model">>]
          ELSE IF Truthy(m) /\ ~ValidOpenAIData(data)
          THEN [returned |-> FALSE, out |-> None, trace |-> <<"model">>]
          ELSE IF Truthy(m)
          THEN [returned |-> TRUE, out |-> Ret(WithBuyer(data)),
                trace |-> <<"model">>]
          ELSE [returned |-> TRUE, out |-> m, trace |-> <<"model">>]

\* an attachment that only fills what the heuristics left out
AttachMetadataKeepsOwn(data, meta) ==
    LET d1 == IF NeedsSender(data)
              THEN SetKey(data, "sender", meta.sender)
              ELSE data
    IN  IF NeedsDate(d1) THEN SetKey(d1, "date", meta.date) ELSE d1

\* extract_from_file, "Add email metadata" (heuristic tier): dict.update
AttachMetadata(data, meta) ==
    SetKey(SetKey(data, "sender", ExtractEmailSender(meta.sender)),
           "date", meta.date)

\* a PDF text acquisition that rasterizes and reads every file
PdfAcquisitionAlwaysOcr(f) == <<"embedded", "ocr">>

\* the steps of extract_from_pdf (text): the embedded text of the pages is
\* read first; "if not text.strip()" the pages are rasterized and read by
\* OCR; an exception while reading the embedded text ends the acquisition
PdfAcquisition(f) ==
    IF f.acq = "fail_direct" THEN <<"embedded">>
    ELSE IF ~f.embedded.blank THEN <<"embedded">>
    ELSE <<"embedded", "ocr">>

\* the steps of the text acquisition extract_from_file picks
Acquisition(f) == IF IsPdf(f) THEN PdfAcquisition(f) ELSE <<"image_ocr">>

\* extract_from_file, the block under "if openai_failed or not
\* self.use_openai:".
HeuristicTier(f, env) ==
    IF ~(IsPdf(f) \/ IsImage(f))
    THEN [out |-> None, trace |-> <<>>]
    ELSE IF env.fault
    THEN [out |-> Raise, trace |-> <<>>]
    ELSE
      LET text == IF IsPdf(f) THEN ExtractFromPdf(f) ELSE ExtractFromImage(f)
          data == ProcessText(text)
      IN  [out |-> Ret(IF f.meta.present
                       THEN AttachMetadata(data, f.meta) ELSE data),
           trace |-> <<"textacq">> \o Acquisition(f) \o <<"heuristics">>]

\* extract_from_file as a whole
ExtractFromFile(mode, f, env) ==
    IF mode /\ ModelTier(f, env).returned
    THEN [out |-> ModelTier(f, env).out, tier |-> "model",
          trace |-> ModelTier(f, env).trace]
    ELSE [out |-> HeuristicTier(f, env).out, tier |-> "heuristic",
          trace |-> (IF mode THEN ModelTier(f, env).trace ELSE <<>>)
                    \o HeuristicTier(f, env).trace]

-----------------------------------------------------------------------------
(* One extract_from_file call on a constructed extractor, tier by tier *)

IdleMain ==
    /\ m_local = TRUE
    /\ m_use_openai = TRUE
    /\ m_docs = <<>>
    /\ m_i = 0
    /\ m_pc = "idle"
    /\ extracted_data = <<>>
    /\ processed_files = {}
    /\ attempts = <<>>
    /\ reported = <<>>
    /\ sink = <<>>

Init ==
    /\ use_openai \in {NewDataExtractor(w, ok) : w \in BOOLEAN, ok \in BOOLEAN}
    /\ call \in {[file |-> f, env |-> e, pc |-> "start", out |-> None,
                  tier |-> "none", trace |-> <<>>] :
                    f \in Files, e \in Envs}
    /\ IdleMain
    /\ IdleUnits

\* a model tier without the try/except: the strategy's exception leaves
\* extract_from_file
ModelAttemptNoCatch ==
    /\ call.pc = "start"
    /\ use_openai
    /\ LET r == ModelTier(call.file, call.env)
           raised == (IsPdf(call.file) \/ IsImage(call.file))
                     /\ ModelStrategy(call.file, call.env).kind = "raise"
       IN  call' = IF raised
                   THEN [call EXCEPT !.pc = "raised", !.out = Raise,
                                     !.tier = "model", !.trace = r.trace]
                   ELSE IF r.returned
                   THEN [call EXCEPT !.pc = "returned", !.out = r.out,
                                     !.tier = "model", !.trace = r.trace]
                   ELSE [call EXCEPT !.pc = "fallback", !.trace = r.trace]
    /\ UNCHANGED <<use_openai, mainVars, unitVars>>

\* a model tier that switches the extractor to heuristic-only mode when it
\* falls back
ModelAttemptDisables ==
    /\ call.pc = "start"
    /\ use_openai
    /\ LET r == ModelTier(call.file, call.env)
       IN  /\ call' = IF r.returned
                      THEN [call EXCEPT !.pc = "returned", !.out = r.out,
                                        !.tier = "model", !.trace = r.trace]
                      ELSE [call EXCEPT !.pc = "fallback", !.trace = r.trace]
           /\ use_openai' = r.returned
    /\ UNCHANGED <<mainVars, unitVars>>

\* data_extractor.py:47-74
ModelAttempt ==
    /\ call.pc = "start"
    /\ use_openai
    /\ LET r == ModelTier(call.file, call.env)
       IN  call' = IF r.returned
                   THEN [call EXCEPT !.pc = "returned", !.out = r.out,
                                     !.tier = "model", !.trace = r.trace]
                   ELSE [call EXCEPT !.pc = "fallback", !.trace = r.trace]
    /\ UNCHANGED <<use_openai, mainVars, unitVars>>

\* data_extractor.py:76-97
HeuristicFallback ==
    /\ \/ call.pc = "fallback"
       \/ call.pc = "start" /\ ~use_openai
    /\ LET h == HeuristicTier(call.file, call.env)
       IN  call' = [call EXCEPT
                      !.pc = IF h.out.kind = "raise" THEN "raised"
                             ELSE "returned",
                      !.out = h.out, !.tier = "heuristic",
                      !.trace = call.trace \o h.trace]
    /\ UNCHANGED <<use_openai, mainVars, unitVars>>

Next == ModelAttempt \/ HeuristicFallback

Spec == Init /\ [][Next]_vars

\* the call is over: it returned or an exception left it
Finished == call.pc \in {"returned", "raised"}

\* what the model strategy answered in this call (meaningful when it ran)
StrategyAnswer == ModelStrategy(call.file, call.env)

StrategyRan == Finished /\ "model" \in {call.trace[i] : i \in DOMAIN call.trace}

Events == {call.trace[i] : i \in DOMAIN call.trace}

\* the strategy answered with a non-empty record
AnsweredRecord == StrategyRan /\ Truthy(StrategyAnswer)

-----------------------------------------------------------------------------
(* Claims about extract_from_file (specification Spec) *)

\* C1: with the model tier enabled, when the model strategy returns a
\* non-empty record that lacks total_price, extract_from_file does not return
\* that record: the call ends in the heuristic tier, with the heuristic
\* tier's outcome for the file, which (when no exception leaves the call) is
\* a record holding all four structural fields.
C1_MissingTotalFallsBack ==
    (AnsweredRecord /\ ~Has(StrategyAnswer.rec, "total_price"))
    => /\ call.tier = "heuristic"
       /\ call.out = HeuristicTier(call.file, call.env).out
       /\ call.out.kind = "record"
            => /\ RequiredFields \subseteq call.out.rec.keys
               /\ "textacq" \in Events

C1_Witness ==
    /\ AnsweredRecord
    /\ StrategyAnswer.rec.keys =
         {"sender", "shipping_address", "date", "products"}
    /\ call.file.acq = "ok" /\ call.file.ocr = NoteText
    /\ call.out.kind = "record"
    /\ call.out.rec.total_price = "30.00"

\* C2 (as claimed): for each of the four structural fields, a non-empty
\* record of the model strategy that lacks the field is never returned; the
\* call falls back to the heuristic tier, with or without email_metadata.
C2_AnyMissingFieldFallsBack ==
    \A field \in RequiredFields :
        (AnsweredRecord /\ ~Has(StrategyAnswer.rec, field))
        => call.tier = "heuristic"

\* C3 (as claimed): with the model tier enabled, when the model strategy
\* returns None or an empty record for a PDF or image, the same call runs the
\* heuristic tier and ends with its outcome.
C3_NoDataFallsBack ==
    (StrategyRan /\ StrategyAnswer.kind # "raise" /\ ~Truthy(StrategyAnswer))
    => /\ call.tier = "heuristic"
       /\ call.out = HeuristicTier(call.file, call.env).out

\* no response of the model holds a parseable JSON object: the vision call's
\* content is malformed, and so is (or raises) the second, JSON-mode call
ResponseMalformed ==
    /\ StrategyRan
    /\ call.env.read = "ok"
    /\ IF IsPdf(call.file) THEN call.env.convert = "ok" ELSE call.env.exists
    /\ call.env.api1 \in {"nojson", "badjson"}
    /\ call.env.api2 \in {"raise", "badjson"}

\* C4 (as claimed): when the model's response is malformed, the outcome of
\* extract_from_file is the heuristic tier's, never a model-tier record.
C4_MalformedResponseFallsBack ==
    ResponseMalformed
    => /\ call.tier = "heuristic"
       /\ call.out = HeuristicTier(call.file, call.env).out

\* C5 (as claimed): when text acquisition fails for a PDF or image,
\* extract_from_file returns no record.
C5_AcquisitionFailureReported ==
    (Finished /\ "textacq" \in Events /\ call.file.acq # "ok")
    => ~Truthy(call.out)

\* C6: with the model tier enabled, when the model strategy raises on a PDF
\* or image, the call ends exactly as extract_from_file of a heuristic-only
\* extractor ends on the same file and metadata.
C6_RaiseEqualsHeuristicOnly ==
    (Finished /\ use_openai /\ "model" \in Events
       /\ StrategyAnswer.kind = "raise")
    => call.out = ExtractFromFile(FALSE, call.file, call.env).out

C6_Witness ==
    /\ Finished /\ use_openai /\ "model" \in Events
    /\ StrategyAnswer.kind = "raise"
    /\ call.file.meta = GmailMeta
    /\ call.out.kind = "record"
    /\ call.out.rec.sender = <<"a@acme.com">>
    /\ call.out.rec.shipping_address = "3787 Pineview Drive"

\* the strategy is about to answer, or answered, with a record holding all
\* four structural fields
AnswerComplete ==
    /\ use_openai
    /\ IsPdf(call.file) \/ IsImage(call.file)
    /\ StrategyAnswer.kind = "record"
    /\ RequiredFields \subseteq StrategyAnswer.rec.keys

\* C7: when the model strategy returns a record holding all four structural
\* fields, whatever their values, text acquisition and the heuristic engine
\* are never invoked in that call, and the call returns the strategy's
\* record: model tier, with the strategy's shipping_address, products and
\* total_price.
C7_CompleteRecordReturned ==
    AnswerComplete
    => /\ "textacq" \notin Events /\ "heuristics" \notin Events
       /\ call.pc \in {"start", "returned"}
       /\ call.pc = "returned"
            => /\ call.tier = "model"
               /\ call.out.kind = "record"
               /\ call.out.rec.shipping_address
                    = StrategyAnswer.rec.shipping_address
               /\ call.out.rec.products = StrategyAnswer.rec.products
               /\ call.out.rec.total_price = StrategyAnswer.rec.total_price

C7_Witness ==
    /\ AnswerComplete
    /\ call.pc = "returned"
    /\ StrategyAnswer.rec.shipping_address = "Unknown"
    /\ StrategyAnswer.rec.products = <<>>
    /\ StrategyAnswer.rec.total_price = "0.00"
    /\ call.out.rec.shipping_address = "Unknown"
    /\ call.file.ocr = NoteText /\ call.file.acq = "ok"

\* C10: in a record the model tier returns, a non-empty sender or date of
\* the strategy is unchanged; a sender or date that differs from the
\* strategy's (or that the strategy did not have) is the metadata's, and the
\* strategy's record lacked the field or had it empty.
C10_BackfillOnlyWhenEmpty ==
    (Finished /\ call.tier = "model" /\ Truthy(call.out))
    => LET a == StrategyAnswer.rec
           r == call.out.rec
           meta == call.file.meta
       IN  /\ ~NeedsSender(a) => Has(r, "sender") /\ r.sender = a.sender
           /\ ~NeedsDate(a) => Has(r, "date") /\ r.date = a.date
           /\ Has(r, "sender") /\ (~Has(a, "sender") \/ r.sender # a.sender)
                => /\ NeedsSender(a) /\ meta.present
                   /\ r.sender = ExtractEmailSender(meta.sender)
           /\ Has(r, "date") /\ (~Has(a, "date") \/ r.date # a.date)
                => NeedsDate(a) /\ meta.present /\ r.date = meta.date
           /\ ~meta.present
                => /\ Has(r, "sender") = Has(a, "sender")
                   /\ Has(r, "date") = Has(a, "date")

C10_Witness ==
    /\ Finished /\ call.tier = "model" /\ Truthy(call.out)
    /\ call.file.meta = GmailMeta
    /\ StrategyAnswer.rec.sender = SenderModel
    /\ Has(StrategyAnswer.rec, "date") /\ StrategyAnswer.rec.date = ""
    /\ call.out.rec.sender = SenderModel
    /\ call.out.rec.date = "2023-09-01"

\* the spans "<" ... ">" of a sender string that hold at least one token and
\* no ">" inside
AngleSpans(s) ==
    { g \in (DOMAIN s) \X (DOMAIN s) :
        /\ s[g[1]] = "<" /\ s[g[2]] = ">" /\ g[2] > g[1] + 1
        /\ \A k \in (g[1] + 1)..(g[2] - 1) : s[k] # ">" }

\* C11: when the heuristic tier produces the record and email_metadata is
\* present, the record's date is the metadata's date, whatever date the
\* heuristics found in the text, and its sender is the metadata's sender:
\* what stands between the first "<" ... ">" pair when there is one, the
\* whole sender string otherwise.
C11_HeuristicMetadataOverrides ==
    (Finished /\ call.tier = "heuristic" /\ call.out.kind = "record"
       /\ call.file.meta.present)
    => LET r == call.out.rec
           s == call.file.meta.sender
       IN  /\ Has(r, "date") /\ r.date = call.file.meta.date
           /\ Has(r, "sender")
           /\ IF AngleSpans(s) = {} THEN r.sender = s
              ELSE \E g \in AngleSpans(s) :
                      /\ \A h \in AngleSpans(s) : g[1] <= h[1]
                      /\ r.sender = SubSeq(s, g[1] + 1, g[2] - 1)

C11_Witness ==
    /\ Finished /\ call.tier = "heuristic" /\ call.out.kind = "record"
    /\ call.file.meta = GmailMeta
    /\ ExtractDate(call.file.ocr) = "15/07/2022"
    /\ IsImage(call.file) /\ call.file.acq = "ok"
    /\ call.out.rec.date = "2023-09-01"
    /\ call.out.rec.sender = <<"a@acme.com">>
    /\ call.out.rec.shipping_address = "3787 Pineview Drive"

-----------------------------------------------------------------------------
(* main(): the orchestrating caller (specification SpecMain) *)

MaxDocs == 2

CompleteRecord ==
    [keys |-> {"sender", "shipping_address", "date", "products",
               "total_price"},
     sender |-> SenderModel, shipping_address |-> "1 Model Road",
     date |-> "2022-07-15", products |-> <<Widget>>,
     total_price |-> "30.00", buyer |-> ""]

PartialRecord ==
    [keys |-> {"shipping_address", "date"},
     sender |-> <<>>, shipping_address |-> "1 Model Road",
     date |-> "2022-07-15", products |-> <<>>, total_price |-> "",
     buyer |-> ""]

\* what can happen during one attempt of main: the model answers with a
\* complete record, with a partial one, or its call fails; with or without an
\* exception leaving extract_from_file
MainEnvs ==
    {[e EXCEPT !.fault = b] :
        e \in {BaseEnv,
               [BaseEnv EXCEPT !.api1 = "json", !.rec1 = CompleteRecord],
               [BaseEnv EXCEPT !.api1 = "json", !.rec1 = PartialRecord]},
        b \in BOOLEAN}

\* file contents a run can meet; a document's hash (get_file_hash) stands
\* for its content
PdfContent ==
    [mime |-> PdfMime, embedded |-> NoteText, ocr |-> ScanText, acq |-> "ok"]

PngContent ==
    [mime |-> PngMime, embedded |-> BlankText, ocr |-> NoteText,
     acq |-> "fail"]

PlainContent ==
    [mime |-> PlainMime, embedded |-> BlankText, ocr |-> BlankText,
     acq |-> "ok"]

\* the local directory holds files with a supported extension: main.py:52-55
LocalContents == {PdfContent, PngContent}

GmailContents == {PdfContent, PngContent, PlainContent}

\* the file_info main builds (main.py:56-65) or download_all_attachments
\* returns (attachment_handler.py:56-61, 82-86)
FileInfo(content, meta) ==
    [mime |-> content.mime, meta |-> meta, embedded |-> content.embedded,
     ocr |-> content.ocr, acq |-> content.acq]

DocFile(i) == FileInfo(m_docs[i], IF m_local THEN LocalMeta ELSE GmailMeta)

\* get_file_hash: the digest of the file's bytes
GetFileHash(content) == content

SeqsUpTo(S, n) == UNION {[1..k -> S] : k \in 1..n}

IdleExtractor ==
    /\ use_openai = FALSE
    /\ call = [file |-> FileInfo(PlainContent, NoMeta), env |-> BaseEnv,
               pc |-> "idle", out |-> None, tier |-> "none", trace |-> <<>>]

InitMain ==
    /\ m_local \in BOOLEAN
    /\ m_use_openai \in {NewDataExtractor(w, ok) :
                           w \in BOOLEAN, ok \in BOOLEAN}
    /\ m_docs \in SeqsUpTo(IF m_local THEN LocalContents ELSE GmailContents,
                           MaxDocs)
    /\ m_i = 1
    /\ m_pc = "loop"
    /\ extracted_data = <<>>
    /\ processed_files = {}
    /\ attempts = [i \in DOMAIN m_docs |-> <<>>]
    /\ reported = [i \in DOMAIN m_docs |-> {}]
    /\ sink = <<>>
    /\ IdleExtractor
    /\ IdleUnits

\* one extraction attempt on document m_i, as the log of attempts keeps it
Attempt(mode, o) == [openai |-> mode, kind |-> o.kind, truthy |-> Truthy(o)]

Logged(mode, o) == [attempts EXCEPT ![m_i] = Append(@, Attempt(mode, o))]

Say(msg) == [reported EXCEPT ![m_i] = @ \cup {msg}]

\* an append that leaves the record in the list twice
AppendedTwice(o) ==
    extracted_data \o <<[doc |-> m_i, rec |-> o.rec],
                        [doc |-> m_i, rec |-> o.rec]>>

Appended(o) == Append(extracted_data, [doc |-> m_i, rec |-> o.rec])

\* main.py:67-75 and 83-84: the first attempt on a local file
LocalFirstAttempt ==
    /\ m_pc = "loop" /\ m_local /\ m_i <= Len(m_docs)
    /\ \E env \in MainEnvs :
         LET o == ExtractFromFile(m_use_openai, DocFile(m_i), env).out
         IN  /\ attempts' = Logged(m_use_openai, o)
             /\ IF Truthy(o)
                THEN /\ extracted_data' = Appended(o)
                     /\ reported' = Say("extracted")
                     /\ m_i' = m_i + 1
                     /\ m_pc' = "loop"
                ELSE IF o.kind = "raise"
                THEN /\ reported' = Say("error")
                     /\ m_pc' = "local_handler"
                     /\ UNCHANGED <<extracted_data, m_i>>
                ELSE /\ reported' = Say("failed")
                     /\ m_pc' = "local_retry"
                     /\ UNCHANGED <<extracted_data, m_i>>
    /\ UNCHANGED <<m_local, m_use_openai, m_docs, processed_files, sink,
                   extractorVars>>
    /\ UNCHANGED unitVars

\* main.py:76-84: the retry of the else branch, inside the try
LocalRetry ==
    /\ m_pc = "local_retry"
    /\ \E env \in MainEnvs :
         LET mode == NewDataExtractor(FALSE, TRUE)
             o == ExtractFromFile(mode, DocFile(m_i), env).out
         IN  /\ attempts' = Logged(mode, o)
             /\ IF Truthy(o)
                THEN /\ extracted_data' = Appended(o)
                     /\ reported' = Say("extracted_ocr")
                     /\ m_i' = m_i + 1
                     /\ m_pc' = "loop"
                ELSE IF o.kind = "raise"
                THEN /\ reported' = Say("error")
                     /\ m_pc' = "local_handler"
                     /\ UNCHANGED <<extracted_data, m_i>>
                ELSE /\ reported' = Say("failed_ocr")
                     /\ m_i' = m_i + 1
                     /\ m_pc' = "loop"
                     /\ UNCHANGED extracted_data
    /\ UNCHANGED <<m_local, m_use_openai, m_docs, processed_files, sink,
                   extractorVars>>
    /\ UNCHANGED unitVars

\* main.py:85-96: the retry of the except handler
LocalHandlerRetry ==
    /\ m_pc = "local_handler"
    /\ \E env \in MainEnvs :
         LET mode == NewDataExtractor(FALSE, TRUE)
             o == ExtractFromFile(mode, DocFile(m_i), env).out
         IN  /\ attempts' = Logged(mode, o)
             /\ IF Truthy(o)
                THEN /\ extracted_data' = Appended(o)
                     /\ reported' = Say("extracted_ocr")
                ELSE IF o.kind = "raise"
                THEN /\ reported' = Say("error_ocr")
                     /\ UNCHANGED extracted_data
                ELSE /\ reported' = Say("failed_ocr")
                     /\ UNCHANGED extracted_data
    /\ m_i' = m_i + 1
    /\ m_pc' = "loop"
    /\ UNCHANGED <<m_local, m_use_openai, m_docs, processed_files, sink,
                   extractorVars>>
    /\ UNCHANGED unitVars

\* main.py:151-158: an attachment whose hash was seen before is skipped
GmailSkipDuplicate ==
    /\ m_pc = "loop" /\ ~m_local /\ m_i <= Len(m_docs)
    /\ GetFileHash(m_docs[m_i]) \in processed_files
    /\ reported' = Say("skipped_duplicate")
    /\ m_i' = m_i + 1
    /\ UNCHANGED <<m_local, m_use_openai, m_docs, m_pc, extracted_data,
                   processed_files, attempts, sink, extractorVars>>
    /\ UNCHANGED unitVars

\* a first attempt that remembers the hash only when it gave a record
GmailFirstAttemptMarksSuccess ==
    /\ m_pc = "loop" /\ ~m_local /\ m_i <= Len(m_docs)
    /\ GetFileHash(m_docs[m_i]) \notin processed_files
    /\ \E env \in MainEnvs :
         LET o == ExtractFromFile(m_use_openai, DocFile(m_i), env).out
         IN  /\ attempts' = Logged(m_use_openai, o)
             /\ processed_files' =
                  IF Truthy(o)
                  THEN processed_files \cup {GetFileHash(m_docs[m_i])}
                  ELSE processed_files
             /\ IF Truthy(o)
                THEN /\ extracted_data' = Appended(o)
                     /\ reported' = Say("extracted")
                     /\ m_i' = m_i + 1
                     /\ m_pc' = "loop"
                ELSE IF o.kind = "raise"
                THEN /\ reported' = Say("traceback")
                     /\ m_pc' = "crashed"
                     /\ UNCHANGED <<extracted_data, m_i>>
                ELSE /\ reported' = Say("failed")
                     /\ m_pc' = "gmail_retry"
                     /\ UNCHANGED <<extracted_data, m_i>>
    /\ UNCHANGED <<m_local, m_use_openai, m_docs, sink, extractorVars>>
    /\ UNCHANGED unitVars

\* main.py:151-171: the first attempt on a new attachment; no handler
\* surrounds it, so an exception ends main
GmailFirstAttempt ==
    /\ m_pc = "loop" /\ ~m_local /\ m_i <= Len(m_docs)
    /\ GetFileHash(m_docs[m_i]) \notin processed_files
    /\ processed_files' = processed_files \cup {GetFileHash(m_docs[m_i])}
    /\ \E env \in MainEnvs :
         LET o == ExtractFromFile(m_use_openai, DocFile(m_i), env).out
         IN  /\ attempts' = Logged(m_use_openai, o)
             /\ IF Truthy(o)
                THEN /\ extracted_data' = Appended(o)
                     /\ reported' = Say("extracted")
                     /\ m_i' = m_i + 1
                     /\ m_pc' = "loop"
                ELSE IF o.kind = "raise"
                THEN /\ reported' = Say("traceback")
                     /\ m_pc' = "crashed"
                     /\ UNCHANGED <<extracted_data, m_i>>
                ELSE /\ reported' = Say("failed")
                     /\ m_pc' = "gmail_retry"
                     /\ UNCHANGED <<extracted_data, m_i>>
    /\ UNCHANGED <<m_local, m_use_openai, m_docs, sink, extractorVars>>
    /\ UNCHANGED unitVars

\* main.py:171-178
GmailRetry ==
    /\ m_pc = "gmail_retry"
    /\ \E env \in MainEnvs :
         LET mode == NewDataExtractor(FALSE, TRUE)
             o == ExtractFromFile(mode, DocFile(m_i), env).out
         IN  /\ attempts' = Logged(mode, o)
             /\ IF Truthy(o)
                THEN /\ extracted_data' = Appended(o)
                     /\ reported' = Say("extracted_ocr")
                     /\ m_i' = m_i + 1
                     /\ m_pc' = "loop"
                ELSE IF o.kind = "raise"
                THEN /\ reported' = Say("traceback")
                     /\ m_pc' = "crashed"
                     /\ UNCHANGED <<extracted_data, m_i>>
                ELSE /\ reported' = Say("failed_ocr")
                     /\ m_i' = m_i + 1
                     /\ m_pc' = "loop"
                     /\ UNCHANGED extracted_data
    /\ UNCHANGED <<m_local, m_use_openai, m_docs, processed_files, sink,
                   extractorVars>>
    /\ UNCHANGED unitVars

\* main.py:180-200: the extracted data, when there is any, goes to the sinks
GenerateOutput ==
    /\ m_pc = "loop" /\ m_i > Len(m_docs)
    /\ sink' = extracted_data
    /\ m_pc' = "done"
    /\ UNCHANGED <<m_local, m_use_openai, m_docs, m_i, extracted_data,
                   processed_files, attempts, reported, extractorVars>>
    /\ UNCHANGED unitVars

NextMain ==
    \/ LocalFirstAttempt
    \/ LocalRetry
    \/ LocalHandlerRetry
    \/ GmailSkipDuplicate
    \/ GmailFirstAttempt
    \/ GmailRetry
    \/ GenerateOutput

SpecMain == InitMain /\ [][NextMain]_vars

-----------------------------------------------------------------------------
(* Claims about main (specification SpecMain) *)

\* C8 (as claimed): per document, main makes at most two extraction
\* attempts: the first with the configured extractor; a second only after a
\* first that returned no data or raised, and with a heuristic-only
\* extractor; never a third, and none after an attempt that succeeded.
C8_AtMostTwoAttempts ==
    \A d \in DOMAIN attempts :
        LET a == attempts[d]
        IN  /\ Len(a) <= 2
            /\ Len(a) >= 1 => a[1].openai = m_use_openai
            /\ Len(a) >= 2 => ~a[1].truthy /\ ~a[2].openai
            /\ \A i \in 1..(Len(a) - 1) : ~a[i].truthy

\* main is over: it reached its end or an exception ended it
RunEnded == m_pc \in {"done", "crashed"}

\* document d was handed to main's loop body
Handed(d) == d < m_i \/ (d = m_i /\ attempts[d] # <<>>)

InSink(d) == \E k \in DOMAIN sink : sink[k].doc = d

\* the messages that tell the operator a document gave no record
FailureReports ==
    {"failed", "failed_ocr", "error", "error_ocr", "traceback",
     "skipped_duplicate"}

\* C9 (as claimed): when the run is over, every document handed to main has
\* a record in the data passed to the sinks, or a failure (or its skipping as
\* a duplicate) was reported for it.
C9_NoDocumentDropped ==
    RunEnded
    => \A d \in DOMAIN m_docs :
           Handed(d) => InSink(d) \/ reported[d] \cap FailureReports # {}

-----------------------------------------------------------------------------
(* OutputGenerator: the flattening of records into rows
   (output_generator.py).  A string is the sequence of its characters; a
   Python value is None or a string. *)

PyNone == [t |-> "none", s |-> <<>>]

Str(s) == [t |-> "str", s |-> s]

\* truthiness of None and of a str
PyTruthy(v) == v.t = "str" /\ v.s # <<>>

\* dict.get(k, default)
Get(d, k, default) == IF Has(d, k) THEN d[k] ELSE default

Digits == {"0", "1", "2", "3", "4", "5", "6", "7", "8", "9"}

DigitVal ==
    [c \in Digits |->
        CASE c = "0" -> 0 [] c = "1" -> 1 [] c = "2" -> 2 [] c = "3" -> 3
          [] c = "4" -> 4 [] c = "5" -> 5 [] c = "6" -> 6 [] c = "7" -> 7
          [] c = "8" -> 8 [] c = "9" -> 9]

DigitChar == <<"1", "2", "3", "4", "5", "6", "7", "8", "9">>

UnknownStr == <<"U", "n", "k", "n", "o", "w", "n">>

ZeroStr == <<"0", ".", "0", "0">>

IsDigit(c) == c \in Digits

IsNumericChar(c) == c \in Digits \cup {"."}

IsSpace(c) == c \in {" ", "\n", "\t"}

\* re.sub(r'[^\d.]', '', s)
StripNonNumeric(s) == SelectSeq(s, IsNumericChar)

\* re.sub(r'[^\d]', '', s)
StripNonDigits(s) == SelectSeq(s, IsDigit)

\* int of a run of digits (0 for the empty run)
RECURSIVE IntOf(_)
IntOf(s) ==
    IF s = <<>> THEN 0
    ELSE 10 * IntOf(SubSeq(s, 1, Len(s) - 1)) + DigitVal[s[Len(s)]]

\* the decimal digits of n >= 0
RECURSIVE DigitsOf(_)
DigitsOf(n) ==
    IF n < 10 THEN <<(IF n = 0 THEN "0" ELSE DigitChar[n])>>
    ELSE DigitsOf(n \div 10)
           \o <<(IF n % 10 = 0 THEN "0" ELSE DigitChar[n % 10])>>

\* position of the first "." of s, or Len(s) + 1
RECURSIVE DotAt(_, _)
DotAt(s, i) ==
    IF i > Len(s) THEN i ELSE IF s[i] = "." THEN i ELSE DotAt(s, i + 1)

\* float(s) succeeds, for s made of digits and "." only: at least one
\* digit and at most one "."
ParsesAsFloat(s) ==
    /\ StripNonDigits(s) # <<>>
    /\ Len(s) - Len(StripNonDigits(s)) <= 1

\* f"{float(s):.2f}" as a number of hundredths, for s that parses: the
\* value rounded to the nearest hundredth (a third fractional digit of 5 with
\* nothing after it is a tie that the binary value of the float decides; the
\* strings of this model have no such digit)
Hundredths(s) ==
    LET d == DotAt(s, 1)
        whole == SubSeq(s, 1, d - 1)
        frac == SubSeq(s, d + 1, Len(s))
        f2 == SubSeq(frac \o <<"0", "0">>, 1, 2)
        up == Len(frac) >= 3 /\ DigitVal[frac[3]] >= 5
    IN  100 * IntOf(whole) + IntOf(f2) + (IF up THEN 1 ELSE 0)

\* f"{x:.2f}" of a number of hundredths
Format2(h) ==
    DigitsOf(h \div 100)
      \o <<".">> \o SubSeq(DigitsOf(100 + (h % 100)), 2, 3)

\* re.sub(r'\s+', ' ', s.replace('\n', ' '))
RECURSIVE CollapseSpaces(_)
CollapseSpaces(s) ==
    IF s = <<>> THEN <<>>
    ELSE IF IsSpace(s[1])
    THEN IF Len(s) > 1 /\ IsSpace(s[2]) THEN CollapseSpaces(Tail(s))
         ELSE <<" ">> \o CollapseSpaces(Tail(s))
    ELSE <<s[1]>> \o CollapseSpaces(Tail(s))

\* output_generator.py:45-47
FlatShippingAddress(item) ==
    LET a == Get(item, "shipping_address", Get(item, "buyer", Str(<<>>)))
    IN  IF PyTruthy(a) THEN Str(CollapseSpaces(a.s)) ELSE a

\* a resolution without the try/except around float()
ResolveTotalNoCatch(item) ==
    LET t0 == Get(item, "total_price", Str(ZeroStr))
        t1 == IF ~PyTruthy(t0) \/ t0 = Str(UnknownStr) THEN Str(ZeroStr)
              ELSE t0
    IN  IF ParsesAsFloat(StripNonNumeric(t1.s))
        THEN Str(Format2(Hundredths(StripNonNumeric(t1.s))))
        ELSE [t |-> "raise", s |-> <<>>]

\* a resolution that strips but does not format
ResolveTotalUnformatted(item) ==
    LET t0 == Get(item, "total_price", Str(ZeroStr))
        t1 == IF ~PyTruthy(t0) \/ t0 = Str(UnknownStr) THEN Str(ZeroStr)
              ELSE t0
    IN  IF ParsesAsFloat(StripNonNumeric(t1.s))
        THEN Str(StripNonNumeric(t1.s))
        ELSE Str(ZeroStr)

\* output_generator.py:49-61, the resolved document total
ResolveTotal(item) ==
    LET t0 == Get(item, "total_price", Str(ZeroStr))
        t1 == IF ~PyTruthy(t0) \/ t0 = Str(UnknownStr) THEN Str(ZeroStr)
              ELSE t0
    IN  IF ParsesAsFloat(StripNonNumeric(t1.s))
        THEN Str(Format2(Hundredths(StripNonNumeric(t1.s))))
        ELSE Str(ZeroStr)

\* a cleaning that drops the first character as the currency symbol
CleanPriceDropsFirst(product) ==
    LET p == Get(product, "price", Str(<<>>))
    IN  IF ~PyTruthy(p) THEN p
        ELSE IF ParsesAsFloat(StripNonNumeric(Tail(p.s)))
        THEN Str(Format2(Hundredths(StripNonNumeric(Tail(p.s)))))
        ELSE Str(<<>>)

\* output_generator.py:79-87, the cleaned price of a product
CleanPrice(product) ==
    LET p == Get(product, "price", Str(<<>>))
    IN  IF ~PyTruthy(p) THEN p
        ELSE IF ParsesAsFloat(StripNonNumeric(p.s))
        THEN Str(Format2(Hundredths(StripNonNumeric(p.s))))
        ELSE Str(<<>>)

\* output_generator.py:89-95, the cleaned quantity of a product
CleanQuantity(product) ==
    LET q == Get(product, "quantity", Str(<<>>))
    IN  IF ~PyTruthy(q) THEN q ELSE Str(StripNonDigits(q.s))

\* item.get('products') as a list: [] when absent, None or empty
ProductsOf(item) ==
    IF Has(item, "products") /\ item.products.t = "list"
    THEN item.products.l ELSE <<>>

\* a row total that is computed whenever price and quantity are there
ProductTotalAlways(item, product) ==
    LET price == CleanPrice(product)
        quantity == CleanQuantity(product)
    IN  IF PyTruthy(price) /\ PyTruthy(quantity)
        THEN Str(Format2(Hundredths(price.s) * IntOf(quantity.s)))
        ELSE ResolveTotal(item)

\* output_generator.py:97-103, the total of a product row
ProductTotal(item, product) ==
    LET price == CleanPrice(product)
        quantity == CleanQuantity(product)
        total_price == ResolveTotal(item)
    IN  IF /\ PyTruthy(price) /\ PyTruthy(quantity)
           /\ (total_price = Str(ZeroStr) \/ Len(ProductsOf(item)) > 1)
        THEN Str(Format2(Hundredths(price.s) * IntOf(quantity.s)))
        ELSE total_price

\* output_generator.py:180, and the keys of the dicts built at 64-72, 104-112
Headers ==
    <<"sender", "shipping_address", "date", "product_description",
      "quantity", "price", "total_price">>

\* a flattening that keeps only the first product of a record
CsvRowsFirstProduct(item) ==
    LET base == [sender |-> Get(item, "sender", Str(<<>>)),
                 shipping_address |-> FlatShippingAddress(item),
                 date |-> Get(item, "date", Str(UnknownStr)),
                 product_description |-> Str(<<>>),
                 quantity |-> Str(<<>>),
                 price |-> Str(<<>>),
                 total_price |-> ResolveTotal(item)]
    IN  IF ProductsOf(item) = <<>> THEN <<base>>
        ELSE <<[base EXCEPT
                   !.product_description =
                       Get(ProductsOf(item)[1], "description", Str(<<>>)),
                   !.quantity = CleanQuantity(ProductsOf(item)[1]),
                   !.price = CleanPrice(ProductsOf(item)[1]),
                   !.total_price = ProductTotal(item, ProductsOf(item)[1])]>>

\* a flattening that emits no row for a record without products
CsvRowsSkipsEmpty(item) ==
    LET base == [sender |-> Get(item, "sender", Str(<<>>)),
                 shipping_address |-> FlatShippingAddress(item),
                 date |-> Get(item, "date", Str(UnknownStr)),
                 product_description |-> Str(<<>>),
                 quantity |-> Str(<<>>),
                 price |-> Str(<<>>),
                 total_price |-> ResolveTotal(item)]
    IN  [i \in DOMAIN ProductsOf(item) |->
                [base EXCEPT
                   !.product_description =
                       Get(ProductsOf(item)[i], "description", Str(<<>>)),
                   !.quantity = CleanQuantity(ProductsOf(item)[i]),
                   !.price = CleanPrice(ProductsOf(item)[i]),
                   !.total_price = ProductTotal(item, ProductsOf(item)[i])]]

\* save_to_csv, one turn of "for item in data_list" (output_generator.py:
\* 43-114): the dicts appended to flattened_data
CsvRows(item) ==
    LET base == [sender |-> Get(item, "sender", Str(<<>>)),
                 shipping_address |-> FlatShippingAddress(item),
                 date |-> Get(item, "date", Str(UnknownStr)),
                 product_description |-> Str(<<>>),
                 quantity |-> Str(<<>>),
                 price |-> Str(<<>>),
                 total_price |-> ResolveTotal(item)]
    IN  IF ProductsOf(item) = <<>> THEN <<base>>
        ELSE [i \in DOMAIN ProductsOf(item) |->
                [base EXCEPT
                   !.product_description =
                       Get(ProductsOf(item)[i], "description", Str(<<>>)),
                   !.quantity = CleanQuantity(ProductsOf(item)[i]),
                   !.price = CleanPrice(ProductsOf(item)[i]),
                   !.total_price = ProductTotal(item, ProductsOf(item)[i])]]

\* save_to_google_sheet, one turn of "for item in data_list"
\* (output_generator.py:182-250): the lists appended to flattened_data
SheetRows(item) ==
    LET base == <<Get(item, "sender", Str(<<>>)),
                  FlatShippingAddress(item),
                  Get(item, "date", Str(<<>>)),
                  Str(<<>>), Str(<<>>), Str(<<>>),
                  ResolveTotal(item)>>
    IN  IF ProductsOf(item) = <<>> THEN <<base>>
        ELSE [i \in DOMAIN ProductsOf(item) |->
                [base EXCEPT
                   ![4] = Get(ProductsOf(item)[i], "description", Str(<<>>)),
                   ![5] = CleanQuantity(ProductsOf(item)[i]),
                   ![6] = CleanPrice(ProductsOf(item)[i]),
                   ![7] = ProductTotal(item, ProductsOf(item)[i])]]

\* the rows of a whole data_list, record after record
RECURSIVE FlattenCsv(_)
FlattenCsv(data_list) ==
    IF data_list = <<>> THEN <<>>
    ELSE CsvRows(Head(data_list)) \o FlattenCsv(Tail(data_list))

RECURSIVE FlattenSheet(_)
FlattenSheet(data_list) ==
    IF data_list = <<>> THEN <<>>
    ELSE SheetRows(Head(data_list)) \o FlattenSheet(Tail(data_list))

\* an exception left the flattening: some value could not be computed
CsvRaised(rows) ==
    \E i \in DOMAIN rows : \E h \in {Headers[k] : k \in DOMAIN Headers} :
        rows[i][h].t = "raise"

-----------------------------------------------------------------------------
(* save_to_csv and save_to_google_sheet on one data_list
   (specification SpecOutput) *)

\* longest string of the exhaustive part of the inputs
MaxStrLen == 3

\* characters of the inputs: digits, the decimal point, and "$" for every
\* character that is neither
InputChars == {"0", "1", "9", ".", "$"}

InputStrings ==
    {<<>>} \cup SeqsUpTo(InputChars, MaxStrLen)
    \cup {UnknownStr, ZeroStr,
          <<"1", "2", ".", "0", "0">>,
          <<"$", "1", ",", "2", "3", "4", ".", "5", "6">>,
          <<"1", ".", "9", "9", "9">>}

\* the values a field can hold: None or a string
InputValues == {PyNone} \cup {Str(s) : s \in InputStrings}

FewValues ==
    {PyNone, Str(<<>>), Str(<<"3">>), Str(<<"$">>),
     Str(<<"1", ".", "9">>)}

FewTotals ==
    {Str(<<"3", "0", ".", "0", "0">>), Str(UnknownStr), Str(ZeroStr)}

\* a product dict: the keys it has and their values
Product(keys, description, quantity, price) ==
    [keys |-> keys,
     description |-> IF "description" \in keys THEN description ELSE PyNone,
     quantity |-> IF "quantity" \in keys THEN quantity ELSE PyNone,
     price |-> IF "price" \in keys THEN price ELSE PyNone]

ProductKeys == {"description", "quantity", "price"}

WidgetA == Str(<<"W", "i", "d", "g", "e", "t", " ", "A">>)

WidgetB == Str(<<"W", "i", "d", "g", "e", "t", " ", "B">>)

\* products with one field varied over all the inputs
WideProducts ==
    {Product(ProductKeys, WidgetA, q, p) :
        q \in FewValues, p \in InputValues}
    \cup {Product(ProductKeys, WidgetA, q, p) :
        q \in InputValues, p \in {Str(<<"$", "9">>), Str(<<>>)}}
    \cup {Product(ProductKeys \ {k}, WidgetA, Str(<<"3">>), Str(<<"$", "9">>)) :
        k \in ProductKeys}

FewProducts ==
    {Product(ProductKeys, WidgetA, Str(<<"3">>), Str(<<"$", "9">>)),
     Product(ProductKeys, WidgetB, Str(<<"2">>),
             Str(<<"1", "2", ".", "0", "0">>)),
     Product(ProductKeys, PyNone, PyNone, PyNone),
     Product({"description"}, Str(<<>>), PyNone, PyNone),
     Product(ProductKeys, WidgetB, Str(<<"$">>), Str(<<"1", ".", ".">>))}

NoList == [t |-> "none", l |-> <<>>]

List(l) == [t |-> "list", l |-> l]

\* a record: the keys it has and their values
Item(keys, sender, shipping_address, buyer, date, products, total_price) ==
    [keys |-> keys,
     sender |-> IF "sender" \in keys THEN sender ELSE PyNone,
     shipping_address |->
        IF "shipping_address" \in keys THEN shipping_address ELSE PyNone,
     buyer |-> IF "buyer" \in keys THEN buyer ELSE PyNone,
     date |-> IF "date" \in keys THEN date ELSE PyNone,
     products |-> IF "products" \in keys THEN products ELSE NoList,
     total_price |-> IF "total_price" \in keys THEN total_price ELSE PyNone]

ItemKeys == {"sender", "shipping_address", "date", "products", "total_price"}

AcmeSender == Str(<<"a@acme.com">>)

PineviewAddress ==
    Str(<<"3", "7", "\n", " ", "P", "i", "n", "e", " ", " ", "D", "r">>)

NoteDate == Str(<<"2", "0", "2", "3", "-", "0", "9", "-", "0", "1">>)

\* a record whose keys are all there, with these products and this total
FullItem(products, total_price) ==
    Item(ItemKeys, AcmeSender, PineviewAddress, PyNone, NoteDate, products,
         total_price)

\* records without products, the total varied over all the inputs
TotalItems ==
    {FullItem(p, t) : p \in {NoList, List(<<>>)}, t \in InputValues}
    \cup {Item(ItemKeys \ {"products"}, AcmeSender, PineviewAddress, PyNone,
               NoteDate, NoList, t) : t \in InputValues}

\* records with one product
OneProductItems ==
    {FullItem(List(<<p>>), t) : p \in WideProducts, t \in FewTotals}
    \cup {Item(ItemKeys \ {"total_price"}, AcmeSender, PineviewAddress,
               PyNone, NoteDate, List(<<p>>), PyNone) : p \in WideProducts}

\* records with two products
TwoProductItems ==
    {FullItem(List(<<p, q>>), t) :
        p \in FewProducts, q \in FewProducts, t \in FewTotals}

\* records with keys missing or None
SparseItems ==
    {Item({}, PyNone, PyNone, PyNone, PyNone, NoList, PyNone),
     Item(ItemKeys \ {"date"}, AcmeSender, PineviewAddress, PyNone, PyNone,
          List(<<>>), Str(ZeroStr)),
     Item(ItemKeys, PyNone, PyNone, PyNone, PyNone, NoList, PyNone),
     Item({"buyer", "date", "products"}, PyNone, PyNone, PineviewAddress,
          NoteDate,
          List(<<Product(ProductKeys, WidgetA, Str(<<"3">>),
                         Str(<<"$", "9">>)),
                 Product(ProductKeys, WidgetB, Str(<<"2">>), PyNone)>>),
          PyNone),
     FullItem(List(<<Product(ProductKeys, WidgetB, Str(<<"2">>),
                             Str(<<"1", "2", ".", "0", "0">>))>>),
              Str(<<"2", "4", ".", "0", "0">>))}

DataLists ==
    {<<>>}
    \cup {<<i>> : i \in TotalItems \cup OneProductItems \cup TwoProductItems
                       \cup SparseItems}
    \cup {<<i, j>> : i \in SparseItems, j \in SparseItems}

InitOutput ==
    /\ o_data \in DataLists
    /\ o_client \in BOOLEAN
    /\ o_csv = NotRun
    /\ o_sheet = NotRun
    /\ IdleMain
    /\ IdleExtractor
    /\ IdleProducts
    /\ IdleServices

\* save_to_csv(data_list): output_generator.py:22-128
SaveToCsv ==
    /\ o_csv = NotRun
    /\ o_csv' =
         IF o_data = <<>>
         THEN [kind |-> "none", header |-> <<>>, rows |-> <<>>]
         ELSE IF CsvRaised(FlattenCsv(o_data))
         THEN [kind |-> "raise", header |-> <<>>, rows |-> <<>>]
         ELSE [kind |-> "written", header |-> Headers,
               rows |-> FlattenCsv(o_data)]
    /\ UNCHANGED <<o_data, o_client, o_sheet, extractorVars, mainVars,
                   productVars, serviceVars>>

\* save_to_google_sheet(data_list, ...): output_generator.py:150-271
SaveToGoogleSheet ==
    /\ o_sheet = NotRun
    /\ o_sheet' =
         IF ~o_client \/ o_data = <<>>
         THEN [kind |-> "false", header |-> <<>>, rows |-> <<>>]
         ELSE [kind |-> "sent", header |-> Headers,
               rows |-> FlattenSheet(o_data)]
    /\ UNCHANGED <<o_data, o_client, o_csv, extractorVars, mainVars,
                   productVars, serviceVars>>

NextOutput == SaveToCsv \/ SaveToGoogleSheet

SpecOutput == InitOutput /\ [][NextOutput]_vars

-----------------------------------------------------------------------------
(* Claims about the flattening (specification SpecOutput) *)

\* save_to_csv ran on a non-empty data_list and wrote its rows
CsvWritten == o_csv.kind = "written"

\* the number of rows the records of a list are to give: one per product,
\* one for a record without products
RECURSIVE RowCount(_)
RowCount(data_list) ==
    IF data_list = <<>> THEN 0
    ELSE (IF Len(ProductsOf(Head(data_list))) = 0 THEN 1
          ELSE Len(ProductsOf(Head(data_list))))
         + RowCount(Tail(data_list))

\* the number of rows that belong to the records before the k-th
RowsBefore(k) == RowCount(SubSeq(o_data, 1, k - 1))

\* the row carries the sender, address and date of the record
RowOfItem(row, item) ==
    /\ row.sender = Get(item, "sender", Str(<<>>))
    /\ row.date = Get(item, "date", Str(UnknownStr))
    /\ row.shipping_address = FlatShippingAddress(item)

\* a string of digits, ".", and two digits
IsFixed2(s) ==
    /\ Len(s) >= 4
    /\ s[Len(s) - 2] = "."
    /\ \A i \in (DOMAIN s) \ {Len(s) - 2} : s[i] \in Digits

\* C12: a record whose products are missing, None or an empty list gives
\* exactly one row: blank product_description, quantity and price, the
\* record's sender, address and date, and the resolved document total as
\* total_price.
C12_NoProductsOneRow ==
    CsvWritten
    => /\ Len(o_csv.rows) = RowCount(o_data)
       /\ \A k \in DOMAIN o_data :
            ProductsOf(o_data[k]) = <<>>
            => LET row == o_csv.rows[RowsBefore(k) + 1]
               IN  /\ RowsBefore(k + 1) = RowsBefore(k) + 1
                   /\ RowOfItem(row, o_data[k])
                   /\ row.product_description = Str(<<>>)
                   /\ row.quantity = Str(<<>>)
                   /\ row.price = Str(<<>>)
                   /\ row.total_price = ResolveTotal(o_data[k])

C12_Witness ==
    /\ CsvWritten
    /\ Len(o_data) = 1 /\ ~Has(o_data[1], "products")
    /\ o_data[1].total_price = Str(<<"$", "1", "9">>)
    /\ Len(o_csv.rows) = 1
    /\ o_csv.rows[1].total_price = Str(<<"1", "9", ".", "0", "0">>)
    /\ o_csv.rows[1].price = Str(<<>>)

\* C13: a record with N >= 1 products gives exactly N rows, the i-th with
\* the i-th product's description; the rows of a list stand in the order
\* of its records, and their number is the sum over the records of
\* max(1, number of products).
C13_OneRowPerProduct ==
    CsvWritten
    => /\ Len(o_csv.rows) = RowCount(o_data)
       /\ \A k \in DOMAIN o_data :
            LET n == Len(ProductsOf(o_data[k]))
            IN  /\ RowsBefore(k + 1) = RowsBefore(k) + (IF n = 0 THEN 1 ELSE n)
                /\ \A i \in (RowsBefore(k) + 1)..RowsBefore(k + 1) :
                      RowOfItem(o_csv.rows[i], o_data[k])
                /\ \A i \in 1..n :
                      o_csv.rows[RowsBefore(k) + i].product_description
                        = Get(o_data[k].products.l[i], "description",
                              Str(<<>>))

C13_Witness ==
    /\ CsvWritten
    /\ Len(o_data) = 2
    /\ ~Has(o_data[1], "date") /\ Len(ProductsOf(o_data[1])) = 0
    /\ Len(ProductsOf(o_data[2])) = 2
    /\ Len(o_csv.rows) = 3
    /\ o_csv.rows[1].date = Str(UnknownStr)
    /\ o_csv.rows[2].product_description = WidgetA
    /\ o_csv.rows[3].product_description = WidgetB
    /\ o_csv.rows[3].date = NoteDate

C15_RowTotalRule ==
    CsvWritten
    => \A k \in DOMAIN o_data :
         \A i \in 1..Len(ProductsOf(o_data[k])) :
            LET row == o_csv.rows[RowsBefore(k) + i]
                resolved == ResolveTotal(o_data[k])
                computed == /\ PyTruthy(row.price) /\ PyTruthy(row.quantity)
                            /\ \/ resolved = Str(ZeroStr)
                               \/ Len(ProductsOf(o_data[k])) > 1
            IN  /\ computed
                     => row.total_price =
                          Str(Format2(Hundredths(row.price.s)
                                        * IntOf(row.quantity.s)))
                /\ ~computed => row.total_price = resolved

C15_Witness ==
    /\ CsvWritten
    /\ Len(o_data) = 1 /\ Len(ProductsOf(o_data[1])) = 1
    /\ ~Has(o_data[1], "total_price")
    /\ o_data[1].products.l[1].price = Str(<<"$", "9">>)
    /\ o_data[1].products.l[1].quantity = Str(<<"3">>)
    /\ o_csv.rows[1].price = Str(<<"9", ".", "0", "0">>)
    /\ o_csv.rows[1].total_price = Str(<<"2", "7", ".", "0", "0">>)

\* the total_price of a record as text: "" when it is absent or None
TotalText(item) ==
    IF Has(item, "total_price") /\ item.total_price.t = "str"
    THEN item.total_price.s ELSE <<>>

\* C16: the resolved total of a record is a 2-decimal number without sign:
\* the 2-decimal formatting of the total_price text with everything but
\* digits and "." removed when that has at least one digit and at most one
\* ".", and "0.00" otherwise (absent, None, empty, "Unknown", no digit,
\* two or more "."); every row total written is a 2-decimal number.
C16_ResolvedTotalFixed2 ==
    CsvWritten
    => /\ \A k \in DOMAIN o_data :
            LET kept == StripNonNumeric(TotalText(o_data[k]))
                digits == {j \in DOMAIN kept : kept[j] # "."}
                dots == {j \in DOMAIN kept : kept[j] = "."}
                resolved ==
                    IF ProductsOf(o_data[k]) = <<>>
                    THEN o_csv.rows[RowsBefore(k) + 1].total_price
                    ELSE ResolveTotal(o_data[k])
            IN  /\ resolved.t = "str" /\ IsFixed2(resolved.s)
                /\ IF digits # {} /\ Cardinality(dots) <= 1
                   THEN resolved.s = Format2(Hundredths(kept))
                   ELSE resolved.s = ZeroStr
       /\ \A i \in DOMAIN o_csv.rows :
            /\ o_csv.rows[i].total_price.t = "str"
            /\ IsFixed2(o_csv.rows[i].total_price.s)

C16_Witness ==
    /\ CsvWritten
    /\ Len(o_data) = 1 /\ ProductsOf(o_data[1]) = <<>>
    /\ o_data[1].total_price
         = Str(<<"$", "1", ",", "2", "3", "4", ".", "5", "6">>)
    /\ o_csv.rows[1].total_price
         = Str(<<"1", "2", "3", "4", ".", "5", "6">>)

\* C17: cleaning is idempotent: the price, quantity and total_price of
\* every row written, fed through the cleaning again, come back unchanged.
C17_CleaningIdempotent ==
    CsvWritten
    => \A i \in DOMAIN o_csv.rows :
         LET row == o_csv.rows[i]
             again == Product(ProductKeys, row.product_description,
                              row.quantity, row.price)
         IN  /\ CleanPrice(again) = row.price
             /\ CleanQuantity(again) = row.quantity
             /\ ResolveTotal(FullItem(NoList, row.total_price))
                  = row.total_price

C17_Witness ==
    /\ CsvWritten
    /\ Len(o_data) = 1 /\ Len(ProductsOf(o_data[1])) = 1
    /\ o_data[1].products.l[1].price = Str(<<"1", "2", ".", "0", "0">>)
    /\ o_csv.rows[1].price = Str(<<"1", "2", ".", "0", "0">>)
    /\ o_csv.rows[1].quantity = Str(<<"2">>)
    /\ o_csv.rows[1].total_price = Str(<<"2", "4", ".", "0", "0">>)

-----------------------------------------------------------------------------
(* DataExtractor.extract_products (data_extractor.py:308-449), on the
   characters of the lines *)

Currency == {"$"}

Punctuation == {".", ",", "$"}

\* \w: a letter, a digit or "_"
IsWordChar(c) == ~IsSpace(c) /\ c \notin Punctuation

IsCurrency(c) == c \in Currency

\* [\d,]
IsDigitOrComma(c) == c \in Digits \cup {","}

\* [\d,.]
IsPriceChar(c) == c \in Digits \cup {",", "."}

IsNotSpace(c) == ~IsSpace(c)

IsNotComma(c) == c # ","

\* re.IGNORECASE, for the capitals the texts use
Lower(c) ==
    CASE c = "Q" -> "q" [] c = "T" -> "t" [] c = "Y" -> "y" [] OTHER -> c

\* re.search(r'\d', s)
HasDigit(s) == \E i \in DOMAIN s : IsDigit(s[i])

\* str.strip()
RECURSIVE Strip(_)
Strip(s) ==
    IF s = <<>> THEN s
    ELSE IF IsSpace(s[1]) THEN Strip(Tail(s))
    ELSE IF IsSpace(s[Len(s)]) THEN Strip(SubSeq(s, 1, Len(s) - 1))
    ELSE s

\* end of the longest run of characters of class C that starts at i (i - 1
\* when s[i] is not of the class)
RunEnd(s, i, C(_)) ==
    CHOOSE j \in (i - 1)..Len(s) :
        /\ \A k \in i..j : C(s[k])
        /\ j = Len(s) \/ ~C(s[j + 1])

\* s[i..j] is \d+(?:\.\d+)?
IsNum(s, i, j) ==
    /\ i <= j /\ IsDigit(s[i])
    /\ LET a == RunEnd(s, i, IsDigit)
       IN  \/ a = j
           \/ /\ a + 2 <= j /\ s[a + 1] = "."
              /\ RunEnd(s, a + 2, IsDigit) = j

\* start_patterns (data_extractor.py:320-324)
StartKeywords ==
    {<<"p", "r", "o", "d", "u", "c", "t", " ", "c", "o", "d", "e">>,
     <<"i", "t", "e", "m">>,
     <<"s", "k", "u">>,
     <<"d", "e", "s", "c", "r", "i", "p", "t", "i", "o", "n">>,
     <<"q", "t", "y">>,
     <<"q", "u", "a", "n", "t", "i", "t", "y">>,
     <<"p", "r", "i", "c", "e">>,
     <<"a", "m", "o", "u", "n", "t">>,
     <<"d", "e", "s", "c", "r", "i", "p", "t">>,
     <<"o", "r", "d", "e", "r", "e", "d">>,
     <<"d", "e", "l", "i", "v", "e", "r", "e", "d">>,
     <<"u", "n", "i", "t", " ", "p", "r", "i", "c", "e">>}

\* end_patterns (data_extractor.py:327-330)
EndKeywords ==
    {<<"t", "o", "t", "a", "l">>,
     <<"s", "u", "b", "t", "o", "t", "a", "l">>,
     <<"g", "r", "a", "n", "d", " ", "t", "o", "t", "a", "l">>,
     <<"r", "e", "c", "e", "i", "v", "e", "d", " ", "b", "y">>,
     <<"s", "i", "g", "n", "a", "t", "u", "r", "e">>}

\* re.search(r'\b(?:w1|w2|...)\b', line, re.IGNORECASE) for the words of W
MatchesKeyword(line, W) ==
    \E w \in W : \E i \in 1..(Len(line) - Len(w) + 1) :
        /\ \A k \in 1..Len(w) : Lower(line[i + k - 1]) = w[k]
        /\ i = 1 \/ ~IsWordChar(line[i - 1])
        /\ i + Len(w) > Len(line) \/ ~IsWordChar(line[i + Len(w)])

\* data_extractor.py:353, the length a kept line must exceed
MinLineLen == 5

\* a stage-1 filter that keeps a line of MinLineLen characters
KeepsLineFromMin(line) == Len(line) >= MinLineLen /\ HasDigit(line)

\* data_extractor.py:353
KeepsLine(line) == Len(line) > MinLineLen /\ HasDigit(line)

\* the ways (\d+)\s+(.*?)\s+(\d+(?:\.\d+)?)\s+(\d+(?:\.\d+)?) matches in
\* line, each as <<s, b, c>>: the quantity starts at s, the description is
\* line[b..c-1], and the rest follows from them.  anchored: the pattern ends
\* with $.
ProductMatches(line, anchored) ==
    LET n == Len(line)
    IN  { m \in (1..n) \X (1..n) \X (1..n) :
            /\ IsDigit(line[m[1]])
            /\ LET a == RunEnd(line, m[1], IsDigit)
               IN  /\ a + 1 < m[2] /\ m[2] <= m[3]
                   /\ \A k \in (a + 1)..(m[2] - 1) : IsSpace(line[k])
            /\ IsSpace(line[m[3]])
            /\ LET d == RunEnd(line, m[3], IsSpace) + 1
               IN  /\ d <= n
                   /\ LET e == RunEnd(line, d, IsNotSpace)
                      IN  /\ IsNum(line, d, e)
                          /\ e < n
                          /\ LET f == RunEnd(line, e + 1, IsSpace) + 1
                             IN  /\ f <= n
                                 /\ IF anchored THEN IsNum(line, f, n)
                                    ELSE IsDigit(line[f]) }

\* the match re.search returns: leftmost start, then the longest \s+ after
\* the quantity, then the shortest description
FirstProductMatch(line) ==
    LET M == ProductMatches(line, TRUE)
    IN  CHOOSE m \in M : \A o \in M :
            \/ m[1] < o[1]
            \/ m[1] = o[1] /\ m[2] > o[2]
            \/ m[1] = o[1] /\ m[2] = o[2] /\ m[3] <= o[3]

\* approach 1 (data_extractor.py:370-379): <<product>> on a match, <<>>
\* otherwise
Approach1(line) ==
    IF ProductMatches(line, TRUE) = {} THEN <<>>
    ELSE LET m == FirstProductMatch(line)
             d == RunEnd(line, m[3], IsSpace) + 1
         IN  <<[description |-> Strip(SubSeq(line, m[2], m[3] - 1)),
                quantity |-> SubSeq(line, m[1], RunEnd(line, m[1], IsDigit)),
                price |-> SubSeq(line, d, RunEnd(line, d, IsNotSpace))]>>

\* extract_price (data_extractor.py:473-478)
ExtractPrice(text) ==
    LET starts == { i \in DOMAIN text :
                      \/ IsDigitOrComma(text[i])
                      \/ /\ IsCurrency(text[i]) /\ i < Len(text)
                         /\ IsDigitOrComma(text[i + 1]) }
    IN  IF starts = {} THEN <<>>
        ELSE LET i == CHOOSE x \in starts : \A y \in starts : x <= y
                 g == IF IsCurrency(text[i]) THEN i + 1 ELSE i
                 r == RunEnd(text, g, IsDigitOrComma)
                 cents == /\ r + 3 <= Len(text) /\ text[r + 1] = "."
                          /\ IsDigit(text[r + 2]) /\ IsDigit(text[r + 3])
             IN  SelectSeq(SubSeq(text, g, IF cents THEN r + 3 ELSE r),
                           IsNotComma)

\* re.split(r'\s{2,}|\t', line) from position i on, cur being the part
\* gathered so far
RECURSIVE SplitParts(_, _, _)
SplitParts(line, i, cur) ==
    IF i > Len(line) THEN <<cur>>
    ELSE IF IsSpace(line[i])
            /\ (RunEnd(line, i, IsSpace) > i \/ line[i] = "\t")
    THEN <<cur>> \o SplitParts(line, RunEnd(line, i, IsSpace) + 1, <<>>)
    ELSE SplitParts(line, i + 1, Append(cur, line[i]))

\* the loop "for part in parts" (data_extractor.py:389-399) from part k on
RECURSIVE Classify(_, _, _)
Classify(parts, k, acc) ==
    IF k > Len(parts) THEN acc
    ELSE LET part == Strip(parts[k])
         IN  IF /\ part # <<>> /\ \A j \in DOMAIN part : IsDigit(part[j])
                /\ acc.qty = <<>>
             THEN Classify(parts, k + 1, [acc EXCEPT !.qty = part])
             ELSE IF /\ \E j \in DOMAIN part :
                           IsCurrency(part[j]) \/ part[j] = "."
                     /\ acc.price = <<>>
             THEN Classify(parts, k + 1,
                           [acc EXCEPT !.price = ExtractPrice(part)])
             ELSE Classify(parts, k + 1,
                           [acc EXCEPT !.desc_parts = Append(@, part)])

\* ' '.join(parts)
RECURSIVE Join(_)
Join(parts) ==
    IF parts = <<>> THEN <<>>
    ELSE IF Len(parts) = 1 THEN parts[1]
    ELSE parts[1] \o <<" ">> \o Join(Tail(parts))

\* approach 2 (data_extractor.py:382-420): <<product>> when the line has
\* three parts or more and a description is left, <<>> otherwise
Approach2(line) ==
    LET parts == SplitParts(line, 1, <<>>)
        acc == Classify(parts, 1,
                        [qty |-> <<>>, price |-> <<>>, desc_parts |-> <<>>])
        first == { i \in DOMAIN parts[1] : IsDigit(parts[1][i]) }
        i1 == CHOOSE x \in first : \A y \in first : x <= y
        qty == IF acc.qty = <<>> /\ first # {}
               THEN SubSeq(parts[1], i1, RunEnd(parts[1], i1, IsDigit))
               ELSE acc.qty
        price == IF acc.price = <<>> THEN ExtractPrice(parts[Len(parts)])
                 ELSE acc.price
        description == Strip(Join(acc.desc_parts))
    IN  IF Len(parts) >= 3 /\ description # <<>>
        THEN <<[description |-> description, quantity |-> qty,
                price |-> price]>>
        ELSE <<>>

\* re.sub(r'\b' + w + r'\b', '', s) for a run of digits w, from position i
RECURSIVE RemoveWord(_, _, _)
RemoveWord(s, w, i) ==
    IF i > Len(s) THEN <<>>
    ELSE IF /\ i + Len(w) - 1 <= Len(s)
            /\ SubSeq(s, i, i + Len(w) - 1) = w
            /\ i = 1 \/ ~IsWordChar(s[i - 1])
            /\ i + Len(w) > Len(s) \/ ~IsWordChar(s[i + Len(w)])
    THEN RemoveWord(s, w, i + Len(w))
    ELSE <<s[i]>> \o RemoveWord(s, w, i + 1)

\* re.sub(currency? + re.escape(w), '', s), from position i
RECURSIVE RemovePrice(_, _, _)
RemovePrice(s, w, i) ==
    IF i > Len(s) THEN <<>>
    ELSE IF /\ IsCurrency(s[i]) /\ i + Len(w) <= Len(s)
            /\ SubSeq(s, i + 1, i + Len(w)) = w
    THEN RemovePrice(s, w, i + Len(w) + 1)
    ELSE IF i + Len(w) - 1 <= Len(s) /\ SubSeq(s, i, i + Len(w) - 1) = w
    THEN RemovePrice(s, w, i + Len(w))
    ELSE <<s[i]>> \o RemovePrice(s, w, i + 1)

\* re.sub(r'\s{2,}', ' ', s)
RECURSIVE CollapseWide(_)
CollapseWide(s) ==
    IF s = <<>> THEN <<>>
    ELSE IF IsSpace(s[1]) /\ RunEnd(s, 1, IsSpace) > 1
    THEN <<" ">> \o CollapseWide(SubSeq(s, RunEnd(s, 1, IsSpace) + 1, Len(s)))
    ELSE <<s[1]>> \o CollapseWide(Tail(s))

\* approach 3 (data_extractor.py:424-447): <<product>> when a description
\* is left, <<>> otherwise
Approach3(line) ==
    LET n == Len(line)
        qs == { i \in 1..n :
                  /\ IsDigit(line[i])
                  /\ i = 1 \/ ~IsWordChar(line[i - 1])
                  /\ RunEnd(line, i, IsDigit) = n
                       \/ ~IsWordChar(line[RunEnd(line, i, IsDigit) + 1]) }
        q1 == CHOOSE x \in qs : \A y \in qs : x <= y
        qty == IF qs = {} THEN <<>>
               ELSE SubSeq(line, q1, RunEnd(line, q1, IsDigit))
        \* <<i, g, k>>: the match starts at i, its group at g, and ends
        \* with "." and two digits at k+1..k+3
        ps == { m \in (1..n) \X (1..n) \X (1..n) :
                  /\ m[2] = IF IsCurrency(line[m[1]]) THEN m[1] + 1
                            ELSE m[1]
                  /\ m[2] <= m[3] /\ m[3] + 3 <= n
                  /\ \A j \in m[2]..m[3] : IsPriceChar(line[j])
                  /\ line[m[3] + 1] = "."
                  /\ IsDigit(line[m[3] + 2]) /\ IsDigit(line[m[3] + 3]) }
        p1 == CHOOSE m \in ps : \A o \in ps :
                  m[1] < o[1] \/ (m[1] = o[1] /\ m[3] >= o[3])
        price == IF ps = {} THEN <<>>
                 ELSE SelectSeq(SubSeq(line, p1[2], p1[3] + 3), IsNotComma)
        d1 == IF qty # <<>> THEN RemoveWord(line, qty, 1) ELSE line
        d2 == IF price # <<>> THEN RemovePrice(d1, price, 1) ELSE d1
        desc == Strip(CollapseWide(d2))
    IN  IF desc # <<>>
        THEN <<[description |-> desc, quantity |-> qty, price |-> price]>>
        ELSE <<>>

\* one turn of "for line in product_lines" (data_extractor.py:366-447):
\* the products the line adds
LineProducts(line) ==
    IF Approach1(line) # <<>> THEN Approach1(line)
    ELSE IF Approach2(line) # <<>> THEN Approach2(line)
    ELSE Approach3(line)

-----------------------------------------------------------------------------
(* extract_products on one text (specification SpecProducts) *)

\* longest line of the exhaustive part of the texts
MaxLineLen == 6

\* most lines of a text of the sectioned part
MaxLines == 3

\* characters of the lines: a digit, a letter, a space, the decimal point
LineChars == {"1", "a", " ", "."}

BodyLines == SeqsUpTo(LineChars, MaxLineLen)

QtyLine == <<"Q", "T", "Y">>

TotalLine == <<"t", "o", "t", "a", "l">>

SectionLines ==
    {QtyLine, TotalLine, <<>>,
     <<"1", " ", " ", "1", " ", "1">>,
     <<"a", " ", "1", " ", "1", ".", "1", "1", " ", "1">>}

\* the texts: a line after a table header, a line alone, a few lines with
\* headers and footers among them, and a line after a closed section and a
\* further header or footer
Texts ==
    {<<QtyLine, l>> : l \in BodyLines}
    \cup {<<l>> : l \in BodyLines}
    \cup SeqsUpTo(SectionLines, MaxLines)
    \cup {<<QtyLine, TotalLine, h, l>> :
            h \in {QtyLine, TotalLine}, l \in SectionLines}

InitProducts ==
    /\ p_text \in Texts
    /\ p_pc = "scan"
    /\ p_i = 1
    /\ p_started = FALSE
    /\ p_ended = FALSE
    /\ p_lines = <<>>
    /\ p_products = <<>>
    /\ IdleMain
    /\ IdleExtractor
    /\ IdleOutput
    /\ IdleServices

\* a scan in which a start keyword after the end opens the section again
ScanLineReopens ==
    /\ p_pc = "scan" /\ p_i <= Len(p_text)
    /\ LET line == Strip(p_text[p_i])
           starts == (~p_started \/ p_ended)
                     /\ MatchesKeyword(line, StartKeywords)
           inside == p_started /\ ~p_ended
           ends == inside /\ MatchesKeyword(line, EndKeywords)
       IN  IF line = <<>>
           THEN UNCHANGED <<p_started, p_ended, p_lines>>
           ELSE IF starts
           THEN p_started' = TRUE /\ p_ended' = FALSE /\ UNCHANGED p_lines
           ELSE IF ends
           THEN p_ended' = TRUE /\ UNCHANGED <<p_started, p_lines>>
           ELSE /\ p_lines' = IF inside /\ KeepsLine(line)
                              THEN Append(p_lines, line) ELSE p_lines
                /\ UNCHANGED <<p_started, p_ended>>
    /\ p_i' = p_i + 1
    /\ UNCHANGED <<p_text, p_pc, p_products, extractorVars, mainVars,
                   outputVars, serviceVars>>

\* one turn of "for i, line in enumerate(lines)" (data_extractor.py:334-354)
ScanLine ==
    /\ p_pc = "scan" /\ p_i <= Len(p_text)
    /\ LET line == Strip(p_text[p_i])
           starts == ~p_started /\ MatchesKeyword(line, StartKeywords)
           inside == p_started /\ ~p_ended
           ends == inside /\ MatchesKeyword(line, EndKeywords)
       IN  IF line = <<>>
           THEN UNCHANGED <<p_started, p_ended, p_lines>>
           ELSE IF starts
           THEN p_started' = TRUE /\ UNCHANGED <<p_ended, p_lines>>
           ELSE IF ends
           THEN p_ended' = TRUE /\ UNCHANGED <<p_started, p_lines>>
           ELSE /\ p_lines' = IF inside /\ KeepsLine(line)
                              THEN Append(p_lines, line) ELSE p_lines
                /\ UNCHANGED <<p_started, p_ended>>
    /\ p_i' = p_i + 1
    /\ UNCHANGED <<p_text, p_pc, p_products, extractorVars, mainVars,
                   outputVars, serviceVars>>

\* re.search(product_pattern, line) (data_extractor.py:359-362)
MatchesProductPattern(line) == ProductMatches(line, FALSE) # {}

\* "if not product_lines:" (data_extractor.py:357-363), after the scan
AggressiveScan ==
    /\ p_pc = "scan" /\ p_i > Len(p_text)
    /\ p_lines' =
         IF p_lines = <<>>
         THEN SelectSeq([k \in DOMAIN p_text |-> Strip(p_text[k])],
                        MatchesProductPattern)
         ELSE p_lines
    /\ p_pc' = "process"
    /\ p_i' = 1
    /\ UNCHANGED <<p_text, p_started, p_ended, p_products, extractorVars,
                   mainVars, outputVars, serviceVars>>

\* one turn of "for line in product_lines" (data_extractor.py:366-447)
ProcessLine ==
    /\ p_pc = "process" /\ p_i <= Len(p_lines)
    /\ p_products' = p_products \o LineProducts(p_lines[p_i])
    /\ p_i' = p_i + 1
    /\ UNCHANGED <<p_text, p_pc, p_started, p_ended, p_lines, extractorVars,
                   mainVars, outputVars, serviceVars>>

\* "return products" (data_extractor.py:449)
ReturnProducts ==
    /\ p_pc = "process" /\ p_i > Len(p_lines)
    /\ p_pc' = "done"
    /\ UNCHANGED <<p_text, p_i, p_started, p_ended, p_lines, p_products,
                   extractorVars, mainVars, outputVars, serviceVars>>

NextProducts == ScanLine \/ AggressiveScan \/ ProcessLine \/ ReturnProducts

SpecProducts == InitProducts /\ [][NextProducts]_vars

-----------------------------------------------------------------------------
(* Claims about extract_products (specification SpecProducts) *)

\* C19 (as claimed): every product extract_products gathers has a
\* non-empty description.
C19_DescriptionsNonEmpty ==
    \A k \in DOMAIN p_products : p_products[k].description # <<>>

\* ScanLine is at a line inside the product section: the section has
\* started and not ended, the stripped line is not empty and is not the
\* line that ends the section
AtSectionLine ==
    /\ p_pc = "scan" /\ p_i <= Len(p_text)
    /\ p_started /\ ~p_ended
    /\ Strip(p_text[p_i]) # <<>>
    /\ ~MatchesKeyword(Strip(p_text[p_i]), EndKeywords)

\* C20 (as claimed): in stage 1 a line inside the section is discarded
\* exactly when it is shorter than 5 characters or has no digit; every
\* other such line, one of exactly 5 characters with a digit included, is
\* kept as a candidate.
C20_DiscardedIffShortOrNoDigit ==
    [][AtSectionLine
         => LET line == Strip(p_text[p_i])
            IN  IF Len(line) < 5 \/ ~HasDigit(line)
                THEN p_lines' = p_lines
                ELSE p_lines' = Append(p_lines, line)]_vars

\* C20 (amended): in stage 1 a line inside the section is discarded
\* exactly when it has 5 characters or fewer or has no digit; a line of
\* exactly 5 characters is discarded, and every line of 6 characters or more
\* that has a digit is kept as a candidate.
C20_DiscardedIffAtMostFiveOrNoDigit ==
    [][AtSectionLine
         => LET line == Strip(p_text[p_i])
            IN  IF Len(line) <= 5 \/ ~HasDigit(line)
                THEN p_lines' = p_lines
                ELSE p_lines' = Append(p_lines, line)]_vars

\* a line of exactly 5 characters with a digit was scanned inside the
\* section and is not among the candidates
C20_Witness ==
    /\ p_pc = "scan" /\ p_i = 3
    /\ p_started /\ ~p_ended
    /\ p_text[2] = <<"1", " ", "a", "1", "1">>
    /\ p_lines = <<>>

-----------------------------------------------------------------------------
(* DataExtractor.extract_shipping_address, extract_date and
   extract_total_price (data_extractor.py:195-306, 451-464).  Each walks an
   ordered list of patterns; a text is given by where the patterns of each
   list match in it and what their groups capture there. *)

\* re.IGNORECASE
ToLower(c) ==
    CASE c = "A" -> "a"
      [] c = "B" -> "b"
      [] c = "C" -> "c"
      [] c = "D" -> "d"
      [] c = "E" -> "e"
      [] c = "F" -> "f"
      [] c = "G" -> "g"
      [] c = "H" -> "h"
      [] c = "I" -> "i"
      [] c = "J" -> "j"
      [] c = "K" -> "k"
      [] c = "L" -> "l"
      [] c = "M" -> "m"
      [] c = "N" -> "n"
      [] c = "O" -> "o"
      [] c = "P" -> "p"
      [] c = "Q" -> "q"
      [] c = "R" -> "r"
      [] c = "S" -> "s"
      [] c = "T" -> "t"
      [] c = "U" -> "u"
      [] c = "V" -> "v"
      [] c = "W" -> "w"
      [] c = "X" -> "x"
      [] c = "Y" -> "y"
      [] c = "Z" -> "z"
      [] OTHER -> c

LowerStr(s) == [i \in DOMAIN s |-> ToLower(s[i])]

\* the ordered lists: the position of each entry, first to last
\*   ship  1-2 the literal tests (198-202), 3-8 patterns (205-212),
\*         9-10 address_patterns (245-248)
\*   date  1-2 the literal tests (260-264), 3-4 the sample searches
\*         (267-273), 5-10 patterns (276-283), 11-14 date_patterns (294-299)
\*   total 1-3 patterns (453-457)
PatternCount == [ship |-> 10, date |-> 14, total |-> 3]

FieldNames == {"ship", "date", "total"}

\* the matches of entry p of a field's list in the text
HitsOf(text, field, p) == {h \in text : h.field = field /\ h.p = p}

\* a search that returns the last match in the text
SearchLast(text, field, p) ==
    CHOOSE h \in HitsOf(text, field, p) :
        \A o \in HitsOf(text, field, p) : h.pos >= o.pos

\* re.search(pattern, text): the leftmost match (for a pattern that
\* matches)
Search(text, field, p) ==
    CHOOSE h \in HitsOf(text, field, p) :
        \A o \in HitsOf(text, field, p) : h.pos <= o.pos

\* "for pattern in patterns: match = re.search(...); if match:" over the
\* entries p..last: <<match>> for the first entry that matches, <<>> when
\* none does
RECURSIVE FirstMatch(_, _, _, _)
FirstMatch(text, field, p, last) ==
    IF p > last THEN <<>>
    ELSE IF HitsOf(text, field, p) # {} THEN <<Search(text, field, p)>>
    ELSE FirstMatch(text, field, p + 1, last)

\* first position at which w occurs in s, 0 when it does not
FindIn(s, w) ==
    LET at == { i \in 1..(Len(s) - Len(w) + 1) :
                  SubSeq(s, i, i + Len(w) - 1) = w }
    IN  IF at = {} THEN 0 ELSE CHOOSE i \in at : \A j \in at : i <= j

\* data_extractor.py:224
AddressPrefixes ==
    {<<"a", "t", "t", "e", "n", "t", "i", "o", "n">>,
     <<"a", "t", "t", "n">>,
     <<"c", "/", "o">>,
     <<"c", "a", "r", "e", " ", "o", "f">>,
     <<"n", "a", "m", "e">>,
     <<"a", "d", "d", "r", "e", "s", "s">>,
     <<"c", "u", "s", "t", "o", "m", "e", "r">>,
     <<"r", "e", "c", "i", "p", "i", "e", "n", "t">>,
     <<"d", "e", "l", "i", "v", "e", "r", " ", "t", "o">>,
     <<"s", "h", "i", "p", " ", "t", "o">>}

\* data_extractor.py:227-232
NoisePhrases ==
    <<<<"t", "o", "t", "a", "l", " ", "w", "e", "i", "g", "h", "t", ":">>,
      <<"d", "e", "l", "i", "v", "e", "r", "y", " ", "m", "e", "t", "h",
        "o", "d", ":">>,
      <<"q", "t", "y", " ", "d", "e", "s", "c", "r", "i", "p", "t", "i",
        "o", "n">>,
      <<"u", "n", "i", "t", " ", "p", "r", "i", "c", "e", " ", "a", "m",
        "o", "u", "n", "t">>>>

IsColonOrSpace(c) == c = ":" \/ IsSpace(c)

\* re.sub(r'^(Attention|...)[:\s]+', '', address, flags=re.IGNORECASE)
RemoveAddressPrefix(s) ==
    LET ws == { w \in AddressPrefixes :
                  /\ Len(s) > Len(w)
                  /\ SubSeq(LowerStr(s), 1, Len(w)) = w
                  /\ IsColonOrSpace(s[Len(w) + 1]) }
    IN  IF ws = {} THEN s
        ELSE LET w == CHOOSE x \in ws : TRUE
             IN  SubSeq(s, RunEnd(s, Len(w) + 1, IsColonOrSpace) + 1, Len(s))

\* "for noise in noise_patterns: address = re.sub(noise, '', address,
\* flags=re.IGNORECASE)" from the k-th phrase on
RECURSIVE RemoveNoise(_, _)
RemoveNoise(s, k) ==
    IF k > Len(NoisePhrases) THEN s
    ELSE LET i == FindIn(LowerStr(s), NoisePhrases[k])
         IN  RemoveNoise(IF i = 0 THEN s ELSE SubSeq(s, 1, i - 1), k + 1)

IsNotQuote(c) == c \notin {"'", "\""}

\* data_extractor.py:218-240
CleanAddress(captured) ==
    LET a1 == CollapseSpaces(Strip(captured))
        a2 == RemoveNoise(RemoveAddressPrefix(a1), 1)
    IN  SelectSeq(CollapseSpaces(Strip(a2)), IsNotQuote)

\* characters of the texts that \w does not match
NonWordMarks ==
    {".", ",", "$", ":", "/", "-", "'", "\"", "(", ")", "!", "|"}

\* [\w\s/\-,]
IsDateChar(c) ==
    \/ ~IsSpace(c) /\ c \notin NonWordMarks
    \/ IsSpace(c)
    \/ c \in {"/", "-", ","}

\* data_extractor.py:288-290
CleanDate(captured) == SelectSeq(Strip(captured), IsDateChar)

\* match.group(1).replace(',', '')
CleanTotal(captured) == SelectSeq(captured, IsNotComma)

JohnSmithAddress ==
    <<"J", "o", "h", "n", " ", "S", "m", "i", "t", "h", ",", " ", "3", "7",
      "8", "7", " ", "P", "i", "n", "e", "v", "i", "e", "w", " ", "D", "r",
      "i", "v", "e", ",", " ", "C", "a", "m", "b", "r", "i", "d", "g", "e",
      ",", " ", "M", "A", " ", "1", "2", "2", "1", "0">>

WillamLeeAddress ==
    <<"W", "i", "l", "l", "a", "m", " ", "L", "e", "e", ",", " ", "D", "e",
      "t", "r", "o", "i", "t", ",", " ", "U", "r", "b", "a", "n", " ", "h",
      "i", "l", "l", "s", ",", " ", "M", "I", ",", " ", "U", "S", "A">>

SampleDate15 == <<"1", "5", "/", "0", "7", "/", "2", "0", "2", "2">>

SampleDateSep ==
    <<"S", "e", "p", "t", "e", "m", "b", "e", "r", " ", "6", ",", " ", "2",
      "0", "1", "3">>

\* extract_shipping_address
ShippingAddressFrom(text) ==
    IF HitsOf(text, "ship", 1) # {} THEN JohnSmithAddress
    ELSE IF HitsOf(text, "ship", 2) # {} THEN WillamLeeAddress
    ELSE IF FirstMatch(text, "ship", 3, 8) # <<>>
    THEN CleanAddress(FirstMatch(text, "ship", 3, 8)[1].val)
    ELSE IF FirstMatch(text, "ship", 9, 10) # <<>>
    THEN FirstMatch(text, "ship", 9, 10)[1].val
    ELSE UnknownStr

\* extract_date
DateFrom(text) ==
    IF HitsOf(text, "date", 1) # {} THEN SampleDate15
    ELSE IF HitsOf(text, "date", 2) # {} THEN SampleDateSep
    ELSE IF FirstMatch(text, "date", 3, 4) # <<>>
    THEN FirstMatch(text, "date", 3, 4)[1].val
    ELSE IF FirstMatch(text, "date", 5, 10) # <<>>
    THEN CleanDate(FirstMatch(text, "date", 5, 10)[1].val)
    ELSE IF FirstMatch(text, "date", 11, 14) # <<>>
    THEN FirstMatch(text, "date", 11, 14)[1].val
    ELSE UnknownStr

\* extract_total_price
TotalPriceFrom(text) ==
    IF FirstMatch(text, "total", 1, 3) # <<>>
    THEN CleanTotal(FirstMatch(text, "total", 1, 3)[1].val)
    ELSE ZeroStr

-----------------------------------------------------------------------------
(* The three field extractors on one text, in the order process_text calls
   them (specification SpecFields) *)

\* positions in the text at which a pattern can match
MaxPos == 2

\* what the groups capture
MessyAddress ==
    <<" ", "A", "T", "T", "N", ":", " ", "J", "o", "e", "'", "s", " ", " ",
      "S", "t", "o", "r", "e", "\n", "9", " ", "S", "c", "a", "n", " ",
      "L", "a", "n", "e", " ", "T", "o", "t", "a", "l", " ", "W", "e", "i",
      "g", "h", "t", ":", " ", "5", "k", "g">>

ModelRoad ==
    <<"1", " ", "M", "o", "d", "e", "l", " ", "R", "o", "a", "d">>

PipedDate ==
    <<" ", "2", "0", "2", "3", "-", "0", "9", "-", "0", "1", " ", "|">>

SepDate == <<"6", " ", "S", "e", "p", " ", "2", "0", "1", "3">>

CommaTotal == <<"1", ",", "2", "3", "4", ".", "5", "6">>

ThirtyTotal == <<"3", "0", ".", "0", "0">>

Captures ==
    [ship |-> {MessyAddress, ModelRoad},
     date |-> {PipedDate, SepDate},
     total |-> {CommaTotal, ThirtyTotal}]

\* a match: entry p of the field's list matches at pos and captures val
Hits ==
    UNION { { [field |-> f, p |-> p, pos |-> pos, val |-> v] :
                p \in 1..PatternCount[f], pos \in 1..MaxPos,
                v \in Captures[f] } : f \in FieldNames }

\* a pattern has one match at a position
Compatible(h, g) == ~(h.field = g.field /\ h.p = g.p /\ h.pos = g.pos)

\* the texts: no match, one match, or two
FieldTexts ==
    {{}} \cup {{h} : h \in Hits}
    \cup UNION { {{h, g} : g \in {x \in Hits : Compatible(h, x)}} :
                   h \in Hits }

InitFields ==
    /\ fld \in {[pc |-> "ship", text |-> t, ship |-> <<>>, date |-> <<>>,
                 total |-> <<>>] : t \in FieldTexts}
    /\ pdf = IdleCall
    /\ srch = IdleCall
    /\ dl = IdleCall
    /\ IdleMain
    /\ IdleExtractor
    /\ IdleOutput
    /\ IdleProducts

\* process_text: data['shipping_address'] = extract_shipping_address(text)
CallExtractShippingAddress ==
    /\ fld.pc = "ship"
    /\ fld' = [fld EXCEPT !.pc = "date",
                          !.ship = ShippingAddressFrom(fld.text)]
    /\ UNCHANGED <<pdf, srch, dl, extractorVars, mainVars, outputVars,
                   productVars>>

\* process_text: data['date'] = extract_date(text)
CallExtractDate ==
    /\ fld.pc = "date"
    /\ fld' = [fld EXCEPT !.pc = "total", !.date = DateFrom(fld.text)]
    /\ UNCHANGED <<pdf, srch, dl, extractorVars, mainVars, outputVars,
                   productVars>>

\* process_text: data['total_price'] = extract_total_price(text)
CallExtractTotalPrice ==
    /\ fld.pc = "total"
    /\ fld' = [fld EXCEPT !.pc = "done", !.total = TotalPriceFrom(fld.text)]
    /\ UNCHANGED <<pdf, srch, dl, extractorVars, mainVars, outputVars,
                   productVars>>

NextFields ==
    CallExtractShippingAddress \/ CallExtractDate \/ CallExtractTotalPrice

SpecFields == InitFields /\ [][NextFields]_vars

-----------------------------------------------------------------------------
(* Claims about the field extractors (specification SpecFields) *)

\* the entries of a field's list that match in the text
Matching(field) ==
    {p \in 1..PatternCount[field] : HitsOf(fld.text, field, p) # {}}

\* the earliest match, in the text, of the first entry that matches
Winner(field) ==
    CHOOSE h \in fld.text :
        /\ h.field = field
        /\ \A p \in Matching(field) : h.p <= p
        /\ \A o \in HitsOf(fld.text, field, h.p) : h.pos <= o.pos

\* what the extractor makes of the capture of entry p: a fixed answer for
\* the literal tests, the cleaned capture for the labelled patterns, the
\* capture itself for the others
Returned(field, h) ==
    CASE field = "ship" /\ h.p = 1 -> JohnSmithAddress
      [] field = "ship" /\ h.p = 2 -> WillamLeeAddress
      [] field = "ship" /\ h.p \in 3..8 -> CleanAddress(h.val)
      [] field = "date" /\ h.p = 1 -> SampleDate15
      [] field = "date" /\ h.p = 2 -> SampleDateSep
      [] field = "date" /\ h.p \in 5..10 -> CleanDate(h.val)
      [] field = "total" -> CleanTotal(h.val)
      [] OTHER -> h.val

\* the extractors that have returned
Extracted ==
    (IF fld.pc \in {"date", "total", "done"} THEN {"ship"} ELSE {})
    \cup (IF fld.pc \in {"total", "done"} THEN {"date"} ELSE {})
    \cup (IF fld.pc = "done" THEN {"total"} ELSE {})

\* C21: each field extractor returns what it makes of the capture of the
\* first entry of its ordered list that matches anywhere in the text, at
\* that entry's earliest match; a later entry's match is never returned
\* when an earlier one matches, and the sentinel ("Unknown" / "0.00") is
\* the answer of the fall-through, when no entry matches.
C21_FirstPatternFirstOccurrence ==
    \A field \in Extracted :
        IF Matching(field) = {}
        THEN fld[field] = IF field = "total" THEN ZeroStr ELSE UnknownStr
        ELSE /\ fld[field] = Returned(field, Winner(field))
             /\ fld[field] # (IF field = "total" THEN ZeroStr
                              ELSE UnknownStr)

C21_Witness ==
    /\ fld.pc = "done"
    /\ fld.text =
         {[field |-> "date", p |-> 5, pos |-> 2, val |-> PipedDate],
          [field |-> "date", p |-> 5, pos |-> 1, val |-> SepDate]}
    /\ fld.date = SepDate
    /\ fld.ship = UnknownStr
    /\ fld.total = ZeroStr

-----------------------------------------------------------------------------
(* OpenAIExtractor.extract_from_pdf, statement by statement, with the
   temporary file it creates (specification SpecPdf) *)

\* the path tempfile.NamedTemporaryFile(suffix='.png', delete=False) gives
TempPath == "tmp.png"

\* outcomes of a file-system call
FsOutcomes == {"ok", "raise"}

InitPdf ==
    /\ pdf \in {[pc |-> "convert", env |-> e, disk |-> {}, result |-> None] :
                  e \in QuietEnvs}
    /\ fld = IdleCall
    /\ srch = IdleCall
    /\ dl = IdleCall
    /\ IdleMain
    /\ IdleExtractor
    /\ IdleOutput
    /\ IdleProducts

\* the except clause of extract_from_pdf: a message, return None
PdfCaught == [pdf EXCEPT !.pc = "returned", !.result = None]

\* images = convert_from_path(pdf_path); if images: ... else: return None
PdfConvert ==
    /\ pdf.pc = "convert"
    /\ pdf' = IF pdf.env.convert = "ok"
              THEN [pdf EXCEPT !.pc = "tempfile"]
              ELSE PdfCaught
    /\ UNCHANGED <<fld, srch, dl, extractorVars, mainVars, outputVars,
                   productVars>>

\* with tempfile.NamedTemporaryFile(suffix='.png', delete=False): the file
\* is created on disk, unless the call raises
PdfCreateTemp ==
    /\ pdf.pc = "tempfile"
    /\ \E fs \in FsOutcomes :
          pdf' = IF fs = "ok"
                 THEN [pdf EXCEPT !.pc = "save", !.disk = @ \cup {TempPath}]
                 ELSE PdfCaught
    /\ UNCHANGED <<fld, srch, dl, extractorVars, mainVars, outputVars,
                   productVars>>

\* images[0].save(temp_path, 'PNG'); when it raises, the with block closes
\* the file (delete=False keeps it) and the except clause returns None
PdfSavePage ==
    /\ pdf.pc = "save"
    /\ \E fs \in FsOutcomes :
          pdf' = IF fs = "ok" THEN [pdf EXCEPT !.pc = "extract"]
                 ELSE PdfCaught
    /\ UNCHANGED <<fld, srch, dl, extractorVars, mainVars, outputVars,
                   productVars>>

\* result = self.extract_from_image(temp_path); an exception it lets out
\* (reading the file) goes to the except clause
PdfExtractImage ==
    /\ pdf.pc = "extract"
    /\ LET r == OpenAIExtractFromImage(TempPath \in pdf.disk, pdf.env)
       IN  pdf' = IF r.kind = "raise" THEN PdfCaught
                  ELSE [pdf EXCEPT !.pc = "unlink", !.result = r]
    /\ UNCHANGED <<fld, srch, dl, extractorVars, mainVars, outputVars,
                   productVars>>

\* os.unlink(temp_path); return result
PdfUnlink ==
    /\ pdf.pc = "unlink"
    /\ \E fs \in FsOutcomes :
          pdf' = IF fs = "ok"
                 THEN [pdf EXCEPT !.pc = "returned",
                                  !.disk = @ \ {TempPath}]
                 ELSE PdfCaught
    /\ UNCHANGED <<fld, srch, dl, extractorVars, mainVars, outputVars,
                   productVars>>

NextPdf ==
    PdfConvert \/ PdfCreateTemp \/ PdfSavePage \/ PdfExtractImage
    \/ PdfUnlink

SpecPdf == InitPdf /\ [][NextPdf]_vars

-----------------------------------------------------------------------------
(* Claims about the temporary file (specification SpecPdf) *)

\* C22: when OpenAIExtractor.extract_from_pdf has returned, on the success
\* path or on any failure path, no temporary file it created is left on
\* disk.
C22_TempFileRemovedOnReturn ==
    pdf.pc = "returned" => pdf.disk = {}

-----------------------------------------------------------------------------
(* EmailProcessor.search_emails against a mailbox that lists its matching
   messages page by page, at most maxResults to a page (specification
   SpecSearch) *)

\* messages matching the query
MaxMatches == 6

\* the max_results the caller passes
MaxResultsArg == 3

Min(a, b) == IF a < b THEN a ELSE b

\* messages().list(...).execute(): the page that starts after `from`, and
\* a nextPageToken when messages remain after it
ListPage(matches, from, max_results) ==
    LET n == Min(max_results, matches - from)
    IN  [messages |-> [i \in 1..n |-> from + i],
         nextPageToken |-> from + n < matches]

InitSearch ==
    /\ srch \in {[pc |-> "first", matches |-> n, max_results |-> k,
                  messages |-> <<>>, nextPageToken |-> FALSE,
                  result |-> <<>>] :
                   n \in 0..MaxMatches, k \in 1..MaxResultsArg}
    /\ fld = IdleCall
    /\ pdf = IdleCall
    /\ dl = IdleCall
    /\ IdleMain
    /\ IdleExtractor
    /\ IdleOutput
    /\ IdleProducts

\* messages.extend(response['messages']) and the token of the response
Extended(page) ==
    [srch EXCEPT !.pc = "loop",
                 !.messages = @ \o page.messages,
                 !.nextPageToken = page.nextPageToken]

\* the first list call; a page without messages has no 'messages' key
SearchFirstPage ==
    /\ srch.pc = "first"
    /\ srch' = Extended(ListPage(srch.matches, 0, srch.max_results))
    /\ UNCHANGED <<fld, pdf, dl, extractorVars, mainVars, outputVars,
                   productVars>>

\* while 'nextPageToken' in response: the next list call
SearchNextPage ==
    /\ srch.pc = "loop"
    /\ srch.nextPageToken
    /\ srch' = Extended(ListPage(srch.matches, Len(srch.messages),
                                 srch.max_results))
    /\ UNCHANGED <<fld, pdf, dl, extractorVars, mainVars, outputVars,
                   productVars>>

\* return messages
SearchReturn ==
    /\ srch.pc = "loop"
    /\ ~srch.nextPageToken
    /\ srch' = [srch EXCEPT !.pc = "returned", !.result = srch.messages]
    /\ UNCHANGED <<fld, pdf, dl, extractorVars, mainVars, outputVars,
                   productVars>>

\* a list call raises: except Exception ... return []
SearchCaught ==
    /\ \/ srch.pc = "first"
       \/ srch.pc = "loop" /\ srch.nextPageToken
    /\ srch' = [srch EXCEPT !.pc = "returned", !.result = <<>>]
    /\ UNCHANGED <<fld, pdf, dl, extractorVars, mainVars, outputVars,
                   productVars>>

NextSearch ==
    SearchFirstPage \/ SearchNextPage \/ SearchReturn \/ SearchCaught

SpecSearch == InitSearch /\ [][NextSearch]_vars

-----------------------------------------------------------------------------
(* Claims about search_emails (specification SpecSearch) *)

\* C23: search_emails(query, max_results) returns at most max_results
\* messages, however many pages the service offers.
C23_AtMostMaxResults ==
    srch.pc = "returned" => Len(srch.result) <= srch.max_results

-----------------------------------------------------------------------------
(* AttachmentHandler.download_attachment over the attachments of a run
   (specification SpecDownload) *)

\* download_attachment calls in a run
MaxDownloads == 2

\* message_id[:8]
IdPrefixLen == 8

\* Gmail message ids: a common stem, then two characters that differ
IdStem == <<"1", "8", "c", "5", "a", "1", "b">>

MessageIds == {IdStem \o <<x, y>> : x, y \in {"0", "1"}}

AttachmentIds == {"att1", "att2"}

Filenames ==
    {<<"a", ".", "p", "n", "g">>, <<"b", ".", "p", "n", "g">>,
     <<"a", ".", "p", "d", "f">>, <<"a">>}

OutputDir == <<"d", "a", "t", "a">>

\* s[:n]
Prefix(s, n) == SubSeq(s, 1, IF Len(s) < n THEN Len(s) ELSE n)

\* os.path.splitext: the extension starts at the last dot that has a
\* character other than a dot before it
SplitExt(filename) ==
    LET dots == {i \in 1..Len(filename) :
                    /\ filename[i] = "."
                    /\ \E j \in 1..(i - 1) : filename[j] # "."}
    IN  IF dots = {} THEN [base_name |-> filename, ext |-> <<>>]
        ELSE LET i == CHOOSE d \in dots : \A e \in dots : e <= d
             IN  [base_name |-> SubSeq(filename, 1, i - 1),
                  ext |-> SubSeq(filename, i, Len(filename))]

\* download_attachment: output_path
OutputPath(message_id, att_id, filename, is_inline) ==
    LET parts == SplitExt(filename)
        id8 == Prefix(message_id, IdPrefixLen)
    IN  OutputDir \o <<"/">> \o
        (IF is_inline
         THEN <<"i", "n", "l", "i", "n", "e", "_">> \o id8 \o <<"_">>
              \o parts.base_name \o parts.ext
         ELSE parts.base_name \o <<"_">> \o id8 \o parts.ext)

InitDownload ==
    /\ dl = [pc |-> "run", calls |-> 0, written |-> {}]
    /\ fld = IdleCall
    /\ pdf = IdleCall
    /\ srch = IdleCall
    /\ IdleMain
    /\ IdleExtractor
    /\ IdleOutput
    /\ IdleProducts

\* the attachments already written
Downloaded == {<<w.message_id, w.att_id>> : w \in dl.written}

\* download_attachment(message_id, attachment_info) of an attachment not
\* downloaded before: the content is written to output_path
DownloadAttachment ==
    /\ dl.pc = "run"
    /\ dl.calls < MaxDownloads
    /\ \E message_id \in MessageIds, att_id \in AttachmentIds,
          filename \in Filenames, is_inline \in BOOLEAN :
          /\ <<message_id, att_id>> \notin Downloaded
          /\ dl' = [dl EXCEPT
                      !.calls = @ + 1,
                      !.written = @ \cup
                         {[message_id |-> message_id, att_id |-> att_id,
                           path |-> OutputPath(message_id, att_id,
                                               filename, is_inline)]}]
    /\ UNCHANGED <<fld, pdf, srch, extractorVars, mainVars, outputVars,
                   productVars>>

\* the attachment cannot be fetched or written: except Exception, return
\* None
DownloadFails ==
    /\ dl.pc = "run"
    /\ dl.calls < MaxDownloads
    /\ dl' = [dl EXCEPT !.calls = @ + 1]
    /\ UNCHANGED <<fld, pdf, srch, extractorVars, mainVars, outputVars,
                   productVars>>

NextDownload == DownloadAttachment \/ DownloadFails

SpecDownload == InitDownload /\ [][NextDownload]_vars

-----------------------------------------------------------------------------
(* Claims about download_attachment (specification SpecDownload) *)

\* C24: every attachment is saved under a path of its own: two distinct
\* attachments are never written to the same output path in a run.
C24_UniqueOutputPaths ==
    \A a, b \in dl.written :
        a.path = b.path
            => a.message_id = b.message_id /\ a.att_id = b.att_id

-----------------------------------------------------------------------------
(* Stage 1 of extract_products as a one-way scan (specification
   SpecProducts) *)

\* line k of the text, stripped
Stripped(k) == Strip(p_text[k])

\* the first non-empty line with a start keyword, or past the text
StartIndex ==
    LET S == {k \in DOMAIN p_text :
                 Stripped(k) # <<>>
                 /\ MatchesKeyword(Stripped(k), StartKeywords)}
    IN  IF S = {} THEN Len(p_text) + 1
        ELSE CHOOSE k \in S : \A j \in S : k <= j

\* the first non-empty line with an end keyword after the start line, or
\* past the text
EndIndex ==
    LET E == {k \in DOMAIN p_text :
                 k > StartIndex /\ Stripped(k) # <<>>
                 /\ MatchesKeyword(Stripped(k), EndKeywords)}
    IN  IF E = {} THEN Len(p_text) + 1
        ELSE CHOOSE k \in E : \A j \in E : k <= j

\* the lines scanned so far that lie strictly between the two and pass the
\* stage-1 filter
KeptSoFar ==
    {k \in DOMAIN p_text :
        /\ k < p_i
        /\ StartIndex < k /\ k < EndIndex
        /\ KeepsLine(Stripped(k))}

\* the j-th of them
KeptAt(j) ==
    CHOOSE k \in KeptSoFar : Cardinality({x \in KeptSoFar : x <= k}) = j

\* C25: stage 1 is a one-way scan NotStarted -> InSection -> Ended.  While
\* the scan runs, the section has started exactly when the first
\* start-keyword line has been passed and has ended exactly when the first
\* end-keyword line after it has been passed, and the candidates are, in
\* order, the filtered non-empty lines strictly between the two: the start
\* line and the end line are not among them, an end keyword before the
\* start line changes nothing, and nothing after the end line is collected,
\* a further start keyword included.
C25_OneWayScan ==
    p_pc = "scan" =>
        /\ p_started = (StartIndex < p_i)
        /\ p_ended = (EndIndex < p_i)
        /\ Len(p_lines) = Cardinality(KeptSoFar)
        /\ \A j \in DOMAIN p_lines :
              /\ p_lines[j] = Stripped(KeptAt(j))
              /\ p_lines[j] # <<>>
              /\ KeptAt(j) # StartIndex /\ KeptAt(j) # EndIndex

C25_Witness ==
    /\ p_pc = "scan"
    /\ p_text = <<TotalLine, QtyLine, <<"1", " ", " ", "1", " ", "1">>>>
         \/ p_text = <<QtyLine, TotalLine, QtyLine,
                       <<"1", " ", " ", "1", " ", "1">>>>
    /\ p_i = Len(p_text) + 1
    /\ p_started
    /\ p_ended = (Len(p_text) = 4)
    /\ Len(p_lines) = (IF Len(p_text) = 4 THEN 0 ELSE 1)

-----------------------------------------------------------------------------
(* Records per document (specification SpecMain) *)

\* the records document i has in the extracted-data list
RecordsOf(i) == {k \in DOMAIN extracted_data : extracted_data[k].doc = i}

\* the attempts on document i that gave a record
SuccessesOf(i) == {j \in DOMAIN attempts[i] : attempts[i][j].truthy}

\* C26: each document has at most one record in the extracted-data list,
\* and that record comes from exactly one extraction attempt: the records of
\* a document are as many as its successful attempts, a successful attempt
\* is the last attempt on its document (a first attempt that succeeded is
\* not followed by another), and a retried document adds at most one record
\* whatever the outcomes of its attempts were.
C26_AtMostOneRecordPerDocument ==
    \A i \in DOMAIN attempts :
        /\ Cardinality(RecordsOf(i)) <= 1
        /\ Cardinality(RecordsOf(i)) = Cardinality(SuccessesOf(i))
        /\ \A j \in SuccessesOf(i) : j = Len(attempts[i])

C26_Witness ==
    /\ Len(m_docs) = 2
    /\ m_pc = "done"
    /\ Len(attempts[1]) = 1 /\ attempts[1][1].truthy
    /\ Len(attempts[2]) >= 2 /\ attempts[2][1].kind = "raise"
    /\ attempts[2][Len(attempts[2])].truthy
    /\ Len(extracted_data) = 2

-----------------------------------------------------------------------------
(* Duplicate attachments (specification SpecMain, Gmail mode) *)

\* the attachments with hash h that were handed to the configured extractor
HandedOver(h) ==
    {i \in DOMAIN m_docs :
        GetFileHash(m_docs[i]) = h /\ attempts[i] # <<>>}

\* C29: in Gmail mode every distinct content hash is handed to the
\* configured extractor at most once in a run; an attachment whose hash is
\* that of an earlier attachment is skipped without any extraction attempt,
\* also when the extraction of the earlier one failed.
C29_HashExtractedAtMostOnce ==
    ~m_local =>
        /\ \A i \in DOMAIN m_docs :
              Cardinality(HandedOver(GetFileHash(m_docs[i]))) <= 1
        /\ \A i, j \in DOMAIN m_docs :
              i < j /\ GetFileHash(m_docs[i]) = GetFileHash(m_docs[j])
                 => attempts[j] = <<>>

C29_Witness ==
    /\ ~m_local
    /\ m_pc = "done"
    /\ Len(m_docs) = 2
    /\ GetFileHash(m_docs[1]) = GetFileHash(m_docs[2])
    /\ Len(attempts[1]) = 2
    /\ \A k \in 1..2 : ~attempts[1][k].truthy
    /\ attempts[2] = <<>>
    /\ "skipped_duplicate" \in reported[2]
    /\ extracted_data = <<>>

-----------------------------------------------------------------------------
(* PDF text acquisition (specification Spec) *)

\* C27: in the text acquisition of a PDF the embedded text is read first,
\* and the pages are rasterized and read by OCR only if the embedded text
\* of all pages is empty or whitespace: when the embedded text is not
\* blank, OCR is never invoked for the file.
C27_OcrOnlyWhenEmbeddedBlank ==
    IsPdf(call.file) =>
        /\ "textacq" \in Events => "embedded" \in Events
        /\ \A i \in DOMAIN call.trace :
              call.trace[i] = "ocr"
                 => /\ call.file.embedded.blank
                    /\ \E j \in 1..(i - 1) : call.trace[j] = "embedded"

C27_Witness ==
    /\ Finished
    /\ IsPdf(call.file)
    /\ ~call.file.embedded.blank
    /\ call.file.acq = "ok"
    /\ "embedded" \in Events
    /\ "ocr" \notin Events
    /\ call.out.kind = "record"
    /\ call.tier = "heuristic"

-----------------------------------------------------------------------------
(* The extractor's configuration across a call (specification Spec) *)

\* C28: extract_from_file does not change the extractor's configuration:
\* no step of a call changes use_openai, so the mode after the call is the
\* mode before it, whether the model tier answered, failed or fell back.
C28_ModeUnchanged == [][use_openai' = use_openai]_vars

C28_Witness ==
    /\ Finished
    /\ use_openai
    /\ call.tier = "heuristic"
    /\ "model" \in Events
    /\ "heuristics" \in Events

-----------------------------------------------------------------------------
(* Unsupported MIME types (specification Spec) *)

\* the file of the call is neither application/pdf nor image/*
Unsupported == call.file.mime # PdfMime /\ call.file.mime[1] # "image"

\* C30: for a file whose MIME type is neither application/pdf nor image/*
\* extract_from_file returns None, with the model tier enabled and in
\* heuristic-only mode, and invokes neither the model strategy nor a text
\* acquisition nor the field heuristics; a second call on the same file by
\* a heuristic-only extractor, as the caller's retry makes it, returns None
\* in the same way.
C30_UnsupportedTypeReturnsNone ==
    Unsupported =>
        /\ call.trace = <<>>
        /\ call.pc # "raised"
        /\ Finished => call.out = None
        /\ \A env \in MainEnvs :
              LET retry == ExtractFromFile(NewDataExtractor(FALSE, TRUE),
                                           call.file, env)
              IN  retry.out = None /\ retry.trace = <<>>

C30_Witness ==
    /\ Unsupported
    /\ Finished
    /\ use_openai
    /\ call.env.api1 = "json"
    /\ call.out = None
    /\ call.tier = "heuristic"

====
